---- MODULE Spec2Model ----
(***************************************************************************)
(* State-machine model of the document ingestion backend:                  *)
(*   upload + duplicate detection      app/services/file_service.py        *)
(*   pipeline orchestrator             app/services/processing_service.py  *)
(*   extraction / chunk / embed stage  app/services/langchain_processor.py *)
(*   metadata stage                    app/services/ai_service.py          *)
(*   review gateway, retry             app/api/documents.py, processing.py *)
(* The relational store is modelled as three tables (files, docs,          *)
(* batches); asyncio tasks are a bag of pipeline runs, each with its own   *)
(* program counter, so that runs and request handlers interleave at the    *)
(* points where the code awaits between two status writes.                 *)
(***************************************************************************)
EXTENDS Integers, Sequences, FiniteSets, Bags, TLC

\* ---------------------------------------------------------------- bounds
\* Rows of processing_files (and of documents) in the review specification.
MaxFiles == 1
\* Rows of processing_files, distinct contents and upload requests in the
\* upload specification.
UploadRows == 2
UploadHashes == 2
UploadJobs == 2
\* Files of the one batch in the batch specification.
BatchFiles == 3
\* Largest number of chunks the splitter returns for one document.
MaxChunks == 1
\* Rows of document_chunks one file accumulates over its runs.
MaxChunkRows == 4
\* Longest text, largest chunk_size and largest configured overlap of the
\* chunker specification.
MaxTextLen == 6
MaxChunkSize == 4
MaxOverlap == 1
\* Breaks of the scenario texts: how many, and where (within MaxOffset
\* characters before each multiple of GridStep).
MaxBreaks == 2
GridStep == 50
MaxOffset == 1
\* Most chunks handed to the streaming embedding.
MaxStreamChunks == 120
\* Files of the batch that process_batch is called on.
GatherFiles == 6
\* Distinct review calls (reviewer, timestamp and notes taken together).
MaxReviews == 2
\* Retry calls and pipeline runs in flight when a further retry call arrives.
MaxRetryCalls == 3

\* ------------------------------------------------------ program constants
MaxRetryCount == 3
\* settings.chunk_size, settings.chunk_overlap
DefaultChunkSize == 1000
DefaultChunkOverlap == 200
\* iteration ceiling and floor of the forward step in _split_text_into_chunks
IterationCeiling == 10000
MinForwardFloor == 50
\* ExtractionService.max_text_length
MaxExtractedTextLength == 10000000
\* ProcessingService.max_concurrent_files
MaxConcurrentFiles == 5
MaxFilesPerBatch == 50
CaseKeywordLimit == 2
KeywordLimit == 10
\* stream_batch_size and openai_batch_size of the streaming embedding
StreamBatchSize == 50
OpenAIBatchSize == 20

Reviews == 1..MaxReviews

VARIABLES files, docs, batches, runs, bg, edits, retries, storage, result,
          embeddings, document_fk_set_null, chunker, stream, gather, merge

vars == <<files, docs, batches, runs, bg, edits, retries, storage, result,
          embeddings, document_fk_set_null, chunker, stream, gather, merge>>

\* The calls that are followed on their own: the chunker, the streaming
\* embedding, process_batch.
calls == <<chunker, stream, gather, merge>>

\* The relational store and the tasks, as opposed to a call of the chunker.
tables == <<files, docs, batches, runs, bg, edits, retries, storage, result,
            embeddings, document_fk_set_null>>

\* ------------------------------------------------------------------ rows
\* reviewed_by stands for the review fields one call writes together
\* (reviewed_by, reviewed_at, review_notes); 0 is NULL.  chunk_rows counts
\* the rows of document_chunks stored for the file; chunk_count of a
\* document is -1 while it is NULL.
NoFile ==
  [status |-> "none", batch_id |-> 0, document_id |-> 0, content_hash |-> 0,
   retry_count |-> 0, error_message |-> FALSE, extracted_text |-> FALSE,
   ai_title |-> FALSE, reviewed_by |-> 0, chunk_rows |-> 0]

NoDoc ==
  [exists |-> FALSE, content_hash |-> 0, is_reviewed |-> FALSE,
   is_deleted |-> FALSE, reviewed_by |-> 0,
   processing_status |-> "none", title |-> "none", chunk_count |-> -1]

NoBatch ==
  [status |-> "none", total_files |-> 0, processed_files |-> 0,
   completed_files |-> 0, failed_files |-> 0]

NoResult == [op |-> "none", outcome |-> "none", per_file |-> <<>>]

Response(op, outcome) == [op |-> op, outcome |-> outcome, per_file |-> <<>>]

RowIds(fs) == DOMAIN fs

FileExists(fs, f) == f \in RowIds(fs) /\ fs[f].status # "none"

DocExists(ds, d) == d \in DOMAIN ds /\ ds[d].exists

\* ------------------------------------------------------- status vocabulary
FailedStatuses == {"extraction_failed", "analysis_failed", "embedding_failed"}

RetryableStatuses ==
  {"extraction_failed", "ai_failed", "embedding_failed", "processing_failed"}

DuplicateCheckExcluded == {"failed", "extraction_failed", "duplicate", "cancelled"}

\* No call in progress.
NoCall == [pc |-> "none"]

\* ------------------------------------------------------------------ Init
\* The rows and tasks after start-up; the schema option is left to the
\* specification.
InitRows(nFiles, nJobs) ==
  /\ files = [f \in 1..nFiles |-> NoFile]
  /\ docs = [d \in 1..nFiles |-> NoDoc]
  /\ batches = [b \in 1..nJobs |-> NoBatch]
  /\ runs = EmptyBag
  /\ bg = {}
  /\ edits = {}
  /\ retries = EmptyBag
  /\ chunker = NoCall
  /\ stream = NoCall
  /\ gather = NoCall
  /\ merge = NoCall
  /\ storage = {}
  /\ result = NoResult
  /\ embeddings \in BOOLEAN

\* The specifications of the review, batch, upload and retry operations
\* take the schema in which a deleted Document's id stays on the file row.
InitTables(nFiles, nJobs) ==
  /\ InitRows(nFiles, nJobs)
  /\ document_fk_set_null = FALSE

\* ------------------------------------------- upload and duplicate detection
\* An uploaded file as the handler sees it: its content hash, whether
\* FileValidator accepts it, and whether the blob store accepts the write.
UploadItems(H) == [hash : H, valid : BOOLEAN, store_ok : BOOLEAN]

RECURSIVE SeqsUpTo(_, _)
SeqsUpTo(S, n) ==
  IF n = 0 THEN {<<>>}
  ELSE LET shorter == SeqsUpTo(S, n - 1)
       IN shorter \cup {Append(s, x) : s \in shorter, x \in S}

Requests(H, n) == SeqsUpTo(UploadItems(H), n) \ {<<>>}

\* A variant of the first duplicate check that looks at reviewed (library)
\* Documents only.
ExistingDocumentsInLibrary(ds, h) ==
  {d \in DOMAIN ds : /\ ds[d].exists
                     /\ ds[d].content_hash = h
                     /\ ~ds[d].is_deleted
                     /\ ds[d].is_reviewed}

\* Check 1: non-deleted documents with the same content hash.
ExistingDocuments(ds, h) ==
  {d \in DOMAIN ds : ds[d].exists /\ ds[d].content_hash = h /\ ~ds[d].is_deleted}

\* Check 2: processing files with the same hash outside the excluded statuses.
ExistingProcessing(fs, h) ==
  {f \in DOMAIN fs : /\ fs[f].status # "none"
                     /\ fs[f].content_hash = h
                     /\ fs[f].status \notin DuplicateCheckExcluded}

FreeRow(fs) ==
  CHOOSE f \in DOMAIN fs :
    /\ fs[f].status = "none"
    /\ \A g \in DOMAIN fs : fs[g].status = "none" => f <= g

NewDocument(h) ==
  [NoDoc EXCEPT !.exists = TRUE, !.content_hash = h, !.title = "filename"]

NewProcessingFile(h, job, d) ==
  [NoFile EXCEPT !.status = "uploaded", !.batch_id = job, !.document_id = d,
                 !.content_hash = h]

\* _process_single_file: the dictionary it returns. Validation comes first,
\* then the two duplicate checks, then the storage upload; the duplicate of a
\* Document names it under existing_document_id, the duplicate of a file in
\* processing under existing_processing_file_id. 0 stands for an absent key.
FirstOf(S) == CHOOSE x \in S : \A y \in S : x <= y

FileResult(st, item) ==
  LET refused == [success |-> FALSE, error |-> "none", is_duplicate |-> FALSE,
                  existing_document_id |-> 0, existing_processing_file_id |-> 0]
  IN IF ~item.valid
       THEN [refused EXCEPT !.error = "invalid"]
     ELSE IF ExistingDocuments(st.docs, item.hash) # {}
       THEN [refused EXCEPT !.error = "duplicate_document", !.is_duplicate = TRUE,
               !.existing_document_id = FirstOf(ExistingDocuments(st.docs, item.hash))]
     ELSE IF ExistingProcessing(st.files, item.hash) # {}
       THEN [refused EXCEPT !.error = "duplicate_processing", !.is_duplicate = TRUE,
               !.existing_processing_file_id =
                  FirstOf(ExistingProcessing(st.files, item.hash))]
     ELSE IF ~item.store_ok
       THEN [refused EXCEPT !.error = "storage_failed"]
     ELSE [refused EXCEPT !.success = TRUE]

\* upload_files, the failure branch of the loop: filename and error, and for a
\* duplicate the flag and whatever the result holds under existing_document_id.
\* The response model has a field existing_processing_file_id as well, which
\* the loop never fills and which keeps its default.
FailureInfo(filename, file_result) ==
  [filename |-> filename,
   error |-> file_result.error,
   is_duplicate |-> file_result.is_duplicate,
   existing_document_id |->
     IF file_result.is_duplicate THEN file_result.existing_document_id ELSE 0,
   existing_processing_file_id |-> 0]

\* st threads the tables and the response lists through the per-file loop;
\* a file is named by its position in the request.
ProcessSingleFile(st, item, job) ==
  LET file_result == FileResult(st, item)
      filename == Len(st.per_file) + 1
  IN IF file_result.success
       THEN LET f == FreeRow(st.files)
            IN [files |-> [st.files EXCEPT ![f] = NewProcessingFile(item.hash, job, f)],
                docs |-> [st.docs EXCEPT ![f] = NewDocument(item.hash)],
                storage |-> st.storage \cup {f},
                uploaded |-> Append(st.uploaded, f),
                failed |-> st.failed,
                per_file |-> Append(st.per_file, "ok")]
       ELSE [st EXCEPT !.per_file = Append(@, file_result.error),
                       !.failed = Append(@, FailureInfo(filename, file_result))]

\* Variant of the loop that gives up at the first file that fails.
RECURSIVE ProcessFilesUntilFailure(_, _, _)
ProcessFilesUntilFailure(st, req, job) ==
  IF req = <<>> THEN st
  ELSE LET st1 == ProcessSingleFile(st, Head(req), job)
       IN IF Len(st1.failed) > Len(st.failed)
            THEN st1
            ELSE ProcessFilesUntilFailure(st1, Tail(req), job)

RECURSIVE ProcessFiles(_, _, _)
ProcessFiles(st, req, job) ==
  IF req = <<>> THEN st
  ELSE ProcessFiles(ProcessSingleFile(st, Head(req), job), Tail(req), job)

NextJob(bs) ==
  CHOOSE b \in DOMAIN bs :
    /\ bs[b].status = "none"
    /\ \A c \in DOMAIN bs : bs[c].status = "none" => b <= c

FreeRows(fs) == {f \in DOMAIN fs : fs[f].status = "none"}

\* Variant of the batch-size check that lets an empty request through.
BatchSizeErrorOnlyOversize(n) ==
  IF n > MaxFilesPerBatch THEN "too_many_files" ELSE "none"

\* upload_files, the two checks made before anything is written.
BatchSizeError(n) ==
  IF n = 0 THEN "no_files"
  ELSE IF n > MaxFilesPerBatch THEN "too_many_files"
  ELSE "none"

UploadFiles(req) ==
  /\ IF BatchSizeError(Len(req)) # "none"
       THEN /\ result' = Response("upload", BatchSizeError(Len(req)))
            /\ UNCHANGED <<files, docs, batches, bg, storage>>
       ELSE /\ \E b \in DOMAIN batches : batches[b].status = "none"
            /\ Cardinality(FreeRows(files)) >= Len(req)
            /\ LET job == NextJob(batches)
                   st == ProcessFiles([files |-> files, docs |-> docs,
                                       storage |-> storage, uploaded |-> <<>>,
                                       failed |-> <<>>, per_file |-> <<>>], req, job)
                   nUploaded == Len(st.uploaded)
                   nFailed == Len(st.failed)
               IN /\ files' = st.files
                  /\ docs' = st.docs
                  /\ storage' = st.storage
                  /\ batches' = [batches EXCEPT ![job] =
                       [status |-> IF nUploaded > 0 THEN "processing" ELSE "failed",
                        total_files |-> Len(req),
                        processed_files |-> nUploaded + nFailed,
                        completed_files |-> 0,
                        failed_files |-> nFailed]]
                  /\ bg' = IF nUploaded > 0 THEN bg \cup {st.uploaded} ELSE bg
                  /\ result' = [op |-> "upload", outcome |-> "accepted",
                                per_file |-> st.per_file,
                                uploaded_files |-> st.uploaded,
                                failed_files |-> st.failed,
                                total_files |-> Len(req),
                                success_count |-> nUploaded,
                                error_count |-> nFailed]
  /\ UNCHANGED <<runs, edits, retries, embeddings, document_fk_set_null, calls>>

\* ------------------------------------------------------ status-write helpers
\* _update_document_processing_status: fails when the file row is missing or
\* carries no document_id; the UPDATE itself matches zero rows silently when
\* the document row is gone.
DocumentStatusUpdatable(fs, f) == FileExists(fs, f) /\ fs[f].document_id # 0

UpdateDocumentProcessingStatus(ds, fs, f, ps) ==
  IF DocumentStatusUpdatable(fs, f) /\ DocExists(ds, fs[f].document_id)
    THEN [ds EXCEPT ![fs[f].document_id].processing_status = ps]
    ELSE ds

UpdateFileStatus(fs, f, s) ==
  IF FileExists(fs, f) THEN [fs EXCEPT ![f].status = s] ELSE fs

UpdateFileFailed(fs, f, s) ==
  IF FileExists(fs, f)
    THEN [fs EXCEPT ![f].status = s, ![f].error_message = TRUE]
    ELSE fs

\* ------------------------------------------------------------------ queue
NewRun(f) == [file |-> f, pc |-> "start", chunks |-> 0]

\* queue_text_extraction: status queued, document badge, then create_task.
\* Returns the three tables and whether the task was created.
QueueTextExtraction(fs, ds, rs, f) ==
  LET fs1 == UpdateFileStatus(fs, f, "queued")
  IN IF DocumentStatusUpdatable(fs1, f)
       THEN [files |-> fs1,
             docs |-> UpdateDocumentProcessingStatus(ds, fs1, f, "extracting_text"),
             runs |-> rs (+) SetToBag({NewRun(f)}),
             ok |-> TRUE]
       ELSE [files |-> fs1, docs |-> ds, runs |-> rs, ok |-> FALSE]

\* _start_background_processing: one task per upload request queues the
\* uploaded files one after the other.
BackgroundQueue(s) ==
  /\ s \in bg
  /\ LET q == QueueTextExtraction(files, docs, runs, Head(s))
     IN /\ files' = q.files
        /\ docs' = q.docs
        /\ runs' = q.runs
  /\ bg' = (bg \ {s}) \cup (IF Len(s) > 1 THEN {Tail(s)} ELSE {})
  /\ UNCHANGED <<batches, edits, retries, storage, result, embeddings, document_fk_set_null, calls>>

\* -------------------------------------------------------- batch completion
BatchMembers(fs, b) ==
  {f \in DOMAIN fs : fs[f].status # "none" /\ fs[f].batch_id = b}

CompletedFiles(fs, b) ==
  Cardinality({f \in BatchMembers(fs, b) :
                 fs[f].status \in {"review_pending", "approved"}})

FailedFiles(fs, b) ==
  Cardinality({f \in BatchMembers(fs, b) : fs[f].status \in FailedStatuses})

\* A variant of the final batch status that calls a batch failed as soon as
\* one file failed, successes notwithstanding.
FinalBatchStatusAnyFailure(completed, failed) ==
  IF failed = 0 THEN "processing_complete" ELSE "failed"

FinalBatchStatus(completed, failed) ==
  IF failed = 0 THEN "processing_complete"
  ELSE IF completed > 0 THEN "partially_completed"
  ELSE "failed"

CheckBatchCompletion(bs, fs, b) ==
  LET total == Cardinality(BatchMembers(fs, b))
      completed == CompletedFiles(fs, b)
      failed == FailedFiles(fs, b)
  IN IF b \notin DOMAIN bs \/ total = 0 THEN bs
     ELSE IF total - completed - failed = 0
       THEN [bs EXCEPT ![b].status = FinalBatchStatus(completed, failed),
                       ![b].completed_files = completed,
                       ![b].failed_files = failed]
     ELSE bs

\* ------------------------------------------------------------ pipeline run
Replace(r, r2) == (runs (-) SetToBag({r})) (+) SetToBag({r2})

\* The run returns.  A run started by create_task is gone; the result of a
\* run that a process_batch task awaits is kept for asyncio.gather: it is a
\* success when the run returns from the end of the try block.
Finished(r) ==
  IF "task" \in DOMAIN r
    THEN Replace(r, [r EXCEPT !.pc = IF r.pc = "check" THEN "returned_success"
                                     ELSE "returned_failure"])
    ELSE runs (-) SetToBag({r})

At(r, pc) == r \in BagToSet(runs) /\ r.pc = pc

\* _delete_failed_document: hard delete of the linked document row.
DeleteFailedDocument(ds, fs, f) ==
  IF FileExists(fs, f) /\ fs[f].document_id # 0 /\ DocExists(ds, fs[f].document_id)
    THEN [ds EXCEPT ![fs[f].document_id] = NoDoc]
    ELSE ds

\* What the DELETE of a document row does to the file rows that reference
\* it: processing_files.document_id is nullable, and the tables are created
\* outside the repository, so the foreign key either leaves the id in place
\* or sets it to NULL, depending on document_fk_set_null.
UnlinkDeletedDocument(fs, ds, f) ==
  IF /\ document_fk_set_null
     /\ FileExists(fs, f)
     /\ fs[f].document_id # 0
     /\ DocExists(ds, fs[f].document_id)
    THEN [g \in DOMAIN fs |->
            IF fs[g].status # "none" /\ fs[g].document_id = fs[f].document_id
              THEN [fs[g] EXCEPT !.document_id = 0]
              ELSE fs[g]]
    ELSE fs

\* except-branch of _process_file_pipeline, up to the batch recheck.
PipelineException(r) ==
  /\ docs' = DeleteFailedDocument(docs, files, r.file)
  /\ files' = UpdateFileFailed(UnlinkDeletedDocument(files, docs, r.file),
                               r.file, "extraction_failed")
  /\ runs' = Replace(r, [r EXCEPT !.pc = "check_failed"])

\* process_pdf_file, download and load: on success the text is stored (when
\* non-empty) with status analyzing_metadata; on failure extraction_failed is
\* written and the orchestrator returns the failed result as it is.
Extract(r, ok, has_text, n) ==
  /\ At(r, "start")
  /\ has_text \/ n = 0
  /\ IF ~FileExists(files, r.file)
       THEN PipelineException(r)
     ELSE IF ~ok
       THEN /\ files' = UpdateFileFailed(files, r.file, "extraction_failed")
            /\ runs' = Finished(r)
            /\ docs' = docs
     ELSE /\ files' = [files EXCEPT
                 ![r.file].status = "analyzing_metadata",
                 ![r.file].extracted_text = IF has_text THEN TRUE ELSE @]
          /\ runs' = Replace(r, [r EXCEPT
                 !.pc = IF embeddings /\ n > 0 THEN "lc_embed" ELSE "lc_ready",
                 !.chunks = n])
          /\ docs' = docs
  /\ UNCHANGED <<batches, bg, edits, retries, storage, result, embeddings, document_fk_set_null, calls>>

\* process_pdf_file, step 4 entry: status generating_embeddings.
EmbedStart(r) ==
  /\ At(r, "lc_embed")
  /\ files' = UpdateFileStatus(files, r.file, "generating_embeddings")
  /\ runs' = Replace(r, [r EXCEPT !.pc = "lc_store"])
  /\ UNCHANGED <<docs, batches, bg, edits, retries, storage, result, embeddings, document_fk_set_null, calls>>

\* SupabaseVectorStore.from_documents: embeds and stores, or raises.
EmbedStore(r, ok) ==
  /\ At(r, "lc_store")
  /\ files[r.file].chunk_rows + r.chunks <= MaxChunkRows
  /\ IF ok
       THEN /\ runs' = Replace(r, [r EXCEPT !.pc = "lc_ready"])
            /\ files' = [files EXCEPT ![r.file].chunk_rows = @ + r.chunks]
       ELSE /\ files' = UpdateFileFailed(files, r.file, "extraction_failed")
            /\ runs' = Finished(r)
  /\ UNCHANGED <<docs, batches, bg, edits, retries, storage, result, embeddings, document_fk_set_null, calls>>

\* process_pdf_file, step 5: status review_pending, then return success.
MarkReady(r) ==
  /\ At(r, "lc_ready")
  /\ files' = UpdateFileStatus(files, r.file, "review_pending")
  /\ runs' = Replace(r, [r EXCEPT !.pc = "metadata"])
  /\ UNCHANGED <<docs, batches, bg, edits, retries, storage, result, embeddings, document_fk_set_null, calls>>

\* Orchestrator step 2 entry and extract_metadata up to the provider call.
MetadataStart(r, db_ok) ==
  /\ At(r, "metadata")
  /\ IF ~db_ok \/ ~DocumentStatusUpdatable(files, r.file)
       THEN PipelineException(r)
     ELSE /\ docs' = UpdateDocumentProcessingStatus(docs, files, r.file,
                                                    "analyzing_metadata")
          /\ IF ~files[r.file].extracted_text
               THEN /\ files' = UpdateFileFailed(files, r.file, "analysis_failed")
                    /\ runs' = Finished(r)
               ELSE /\ files' = UpdateFileStatus(files, r.file, "analyzing_metadata")
                    /\ runs' = Replace(r, [r EXCEPT !.pc = "ai_call"])
  /\ UNCHANGED <<batches, bg, edits, retries, storage, result, embeddings, document_fk_set_null, calls>>

\* _save_metadata: the ai_* columns of the processing_files row (ai_title
\* stands for all of them); no document column is written.
SaveMetadata(fs, f) ==
  IF FileExists(fs, f) THEN [fs EXCEPT ![f].ai_title = TRUE] ELSE fs

\* extract_metadata after _extract_metadata_with_ai returned.
MetadataResult(r, ok) ==
  /\ At(r, "ai_call")
  /\ IF ok
       THEN /\ files' = SaveMetadata(
                         UpdateFileStatus(files, r.file, "generating_embeddings"), r.file)
            /\ runs' = Replace(r, [r EXCEPT !.pc = "finish"])
       ELSE /\ files' = UpdateFileFailed(files, r.file, "analysis_failed")
            /\ runs' = Finished(r)
  /\ UNCHANGED <<docs, batches, bg, edits, retries, storage, result, embeddings, document_fk_set_null, calls>>

\* _update_document_with_text_metrics raises when the document UPDATE
\* returns no row.
TextMetricsUpdatable(fs, ds, f) ==
  /\ FileExists(fs, f)
  /\ fs[f].document_id # 0
  /\ DocExists(ds, fs[f].document_id)

\* _update_document_with_text_metrics: chunk_count is the number of chunks
\* the splitter returned to process_pdf_file.
UpdateDocumentWithTextMetrics(ds, fs, f, n) ==
  IF TextMetricsUpdatable(fs, ds, f)
    THEN [ds EXCEPT ![fs[f].document_id].chunk_count = n]
    ELSE ds

\* Orchestrator step 3: text metrics, review_pending, badge, cleanup.
Finish(r, db_ok) ==
  /\ At(r, "finish")
  /\ IF ~db_ok \/ ~TextMetricsUpdatable(files, docs, r.file)
       THEN PipelineException(r)
     ELSE /\ files' = [files EXCEPT ![r.file].status = "review_pending",
                                    ![r.file].extracted_text = FALSE]
          /\ docs' = UpdateDocumentProcessingStatus(
                       UpdateDocumentWithTextMetrics(docs, files, r.file, r.chunks),
                       files, r.file, "ready_for_review")
          /\ runs' = Replace(r, [r EXCEPT !.pc = "check"])
  /\ UNCHANGED <<batches, bg, edits, retries, storage, result, embeddings, document_fk_set_null, calls>>

\* Batch recheck at the end of the success branch and of the except branch.
RecheckBatch(r) ==
  /\ r \in BagToSet(runs)
  /\ r.pc \in {"check", "check_failed"}
  /\ batches' = IF FileExists(files, r.file)
                  THEN CheckBatchCompletion(batches, files, files[r.file].batch_id)
                  ELSE batches
  /\ runs' = Finished(r)
  /\ UNCHANGED <<files, docs, bg, edits, retries, storage, result, embeddings, document_fk_set_null, calls>>

\* ---------------------------------------------------------- review gateway
\* A variant of the approve gate that lets every status through.
ApprovePermittedAlways(status) == TRUE

ApprovePermitted(status) == status = "review_pending"

\* The checks of approve_file_for_library in the order the code makes them.
ApproveOutcome(fs, ds, f) ==
  IF ~FileExists(fs, f) THEN "not_found"
  ELSE IF fs[f].document_id = 0 THEN "no_document"
  ELSE IF ~ApprovePermitted(fs[f].status) THEN "not_review_pending"
  ELSE IF ~DocExists(ds, fs[f].document_id) THEN "document_update_failed"
  ELSE "ok"

ApproveFileForLibrary(f, review) ==
  /\ result' = Response("approve", ApproveOutcome(files, docs, f))
  /\ IF ApproveOutcome(files, docs, f) = "ok"
       THEN /\ docs' = [docs EXCEPT ![files[f].document_id].is_reviewed = TRUE,
                                    ![files[f].document_id].reviewed_by = review]
            /\ files' = [files EXCEPT ![f].status = "approved",
                                      ![f].reviewed_by = review]
       ELSE UNCHANGED <<files, docs>>
  /\ UNCHANGED <<batches, runs, bg, edits, retries, storage, embeddings, document_fk_set_null, calls>>

\* reject_file writes the status without reading the row first.
RejectFile(f, review) ==
  /\ files' = IF FileExists(files, f)
                THEN [files EXCEPT ![f].status = "rejected",
                                   ![f].reviewed_by = review]
                ELSE files
  /\ result' = Response("reject", "ok")
  /\ UNCHANGED <<docs, batches, runs, bg, edits, retries, storage, embeddings, document_fk_set_null, calls>>

\* A variant of the edit gate that lets reviewed Documents through.
EditPermittedAlways(doc) == TRUE

EditPermitted(doc) == ~doc.is_reviewed

EditOutcome(ds, d) ==
  IF ~DocExists(ds, d) THEN "not_found"
  ELSE IF ~EditPermitted(ds[d]) THEN "already_reviewed"
  ELSE "checked"

\* update_document_metadata up to the is_reviewed check; a call that passed
\* the check waits in edits for its two UPDATEs.
EditMetadataCheck(d) ==
  /\ IF EditOutcome(docs, d) = "checked"
       THEN /\ edits' = edits \cup {d}
            /\ result' = result
       ELSE /\ edits' = edits
            /\ result' = Response("edit", EditOutcome(docs, d))
  /\ UNCHANGED <<files, docs, batches, runs, bg, retries, storage, embeddings, document_fk_set_null, calls>>

\* update_document_metadata after the check: document UPDATE, then the
\* processing file of the document goes to under_review.
EditMetadataWrite(d, review) ==
  /\ d \in edits
  /\ edits' = edits \ {d}
  /\ IF ~DocExists(docs, d)
       THEN /\ result' = Response("edit", "not_found")
            /\ UNCHANGED <<files, docs>>
       ELSE /\ docs' = [docs EXCEPT ![d].title = "edited"]
            /\ files' = [f \in DOMAIN files |->
                 IF files[f].status # "none" /\ files[f].document_id = d
                   THEN [files[f] EXCEPT !.status = "under_review",
                                         !.reviewed_by = review]
                   ELSE files[f]]
            /\ result' = Response("edit", "ok")
  /\ UNCHANGED <<batches, runs, bg, retries, storage, embeddings, document_fk_set_null, calls>>

\* delete_document: soft delete.
DeleteDocument(d) ==
  /\ IF DocExists(docs, d)
       THEN /\ docs' = [docs EXCEPT ![d].is_deleted = TRUE]
            /\ result' = Response("delete", "ok")
       ELSE /\ docs' = docs
            /\ result' = Response("delete", "not_found")
  /\ UNCHANGED <<files, batches, runs, bg, edits, retries, storage, embeddings, document_fk_set_null, calls>>

\* ---------------------------------------------------------------- listings
\* list_library_documents: reviewed documents that are not deleted.
LibraryListing(ds) ==
  {d \in DOMAIN ds : ds[d].exists /\ ds[d].is_reviewed /\ ~ds[d].is_deleted}

\* get_review_queue, second SELECT: unreviewed documents that are not deleted.
DocumentsReadyForReview(ds) ==
  {d \in DOMAIN ds : ds[d].exists /\ ~ds[d].is_reviewed /\ ~ds[d].is_deleted}

QueueHiddenStatuses == {"approved", "rejected", "cancelled"}

\* get_review_queue, first loop: every processing file outside the hidden
\* statuses, unless it is review_pending and its document is listed instead.
ProcessingFileItems(fs, ds) ==
  {f \in DOMAIN fs :
     /\ fs[f].status # "none"
     /\ fs[f].status \notin QueueHiddenStatuses
     /\ ~( /\ fs[f].document_id # 0
           /\ fs[f].status = "review_pending"
           /\ fs[f].document_id \in DocumentsReadyForReview(ds) )}

\* get_review_queue, second loop: a ready document whose processing file
\* reads review_pending.
DocumentItems(fs, ds) ==
  {d \in DocumentsReadyForReview(ds) :
     \E f \in DOMAIN fs : /\ fs[f].status = "review_pending"
                          /\ fs[f].document_id = d}

ReviewQueue(fs, ds) ==
  [type : {"processing_file"}, id : ProcessingFileItems(fs, ds)]
    \cup [type : {"document"}, id : DocumentItems(fs, ds)]

\* -------------------------------------------------------------------- retry
\* A variant of the retry gate that lets every status through.
RetryAllowedAlways(status) == TRUE

RetryAllowed(status) == status \in RetryableStatuses

\* A variant of the retry checks that refuses only above the budget.
RetryOutcomeAboveBudget(fs, f) ==
  IF ~FileExists(fs, f) THEN "not_found"
  ELSE IF ~RetryAllowed(fs[f].status) THEN "cannot_retry_status"
  ELSE IF fs[f].retry_count > MaxRetryCount THEN "max_retries_exceeded"
  ELSE "accepted"

RetryOutcome(fs, f) ==
  IF ~FileExists(fs, f) THEN "not_found"
  ELSE IF ~RetryAllowed(fs[f].status) THEN "cannot_retry_status"
  ELSE IF fs[f].retry_count >= MaxRetryCount THEN "max_retries_exceeded"
  ELSE "accepted"

\* The reset UPDATE writes the retry_count the call read, plus one.
ResetForRetry(file, retry_count) ==
  [file EXCEPT !.status = "uploaded", !.retry_count = retry_count + 1,
               !.error_message = FALSE]

\* A retry call between two awaits: the file, the retry_count its SELECT
\* returned, and the statement it executes next.
RetryCall(f, retry_count, pc) == [file |-> f, retry_count |-> retry_count, pc |-> pc]

Advance(t, t2) == (retries (-) SetToBag({t})) (+) SetToBag({t2})

\* retry_file_processing, the SELECT and the two checks on its result.
RetryRead(f) ==
  /\ IF RetryOutcome(files, f) = "accepted"
       THEN /\ retries' = retries (+)
                   SetToBag({RetryCall(f, files[f].retry_count, "reset")})
            /\ result' = result
       ELSE /\ result' = Response("retry", RetryOutcome(files, f))
            /\ retries' = retries
  /\ UNCHANGED <<files, docs, batches, runs, bg, edits, storage, embeddings, document_fk_set_null, calls>>

\* retry_file_processing, the reset UPDATE.
RetryReset(t) ==
  /\ t \in BagToSet(retries)
  /\ t.pc = "reset"
  /\ files' = [files EXCEPT ![t.file] = ResetForRetry(@, t.retry_count)]
  /\ retries' = Advance(t, [t EXCEPT !.pc = "queue"])
  /\ UNCHANGED <<docs, batches, runs, bg, edits, storage, result, embeddings, document_fk_set_null, calls>>

\* retry_file_processing from queue_text_extraction to the response.
RetryQueue(t) ==
  /\ t \in BagToSet(retries)
  /\ t.pc = "queue"
  /\ retries' = retries (-) SetToBag({t})
  /\ LET q == QueueTextExtraction(files, docs, runs, t.file)
     IN /\ files' = q.files
        /\ docs' = q.docs
        /\ runs' = q.runs
        /\ result' = Response("retry", IF q.ok THEN "ok" ELSE "queue_failed")
  /\ UNCHANGED <<batches, bg, edits, storage, embeddings, document_fk_set_null, calls>>

\* ------------------------------------------------------------------ chunker
\* EmbeddingService._split_text_into_chunks.  A text is its length and the
\* characters that are not plain letters, by 0-based position; a span is the
\* slice text[start:end].
Min(a, b) == IF a <= b THEN a ELSE b

Max(a, b) == IF a >= b THEN a ELSE b

Highest(S) == CHOOSE i \in S : \A j \in S : j <= i

Alphabet == {"a", " ", ".", "\n"}

Whitespace == {" ", "\n"}

CharAt(text, i) == IF i \in DOMAIN text.special THEN text.special[i] ELSE "a"

\* The text whose characters are the values of f, a function on 0..len-1.
TextOf(f, len) ==
  [len     |-> len,
   special |-> [i \in {j \in DOMAIN f : f[j] # "a"} |-> f[i]]]

\* text.rfind(c1 + c2, lo, hi): the highest index of the two-character
\* pattern lying within text[lo:hi], or -1.
RFind(text, c1, c2, lo, hi) ==
  LET hits == {i \in DOMAIN text.special :
                 /\ lo <= i
                 /\ i + 2 <= Min(hi, text.len)
                 /\ CharAt(text, i) = c1
                 /\ CharAt(text, i + 1) = c2}
  IN  IF hits = {} THEN 0 - 1 ELSE Highest(hits)

RECURSIVE LStrip(_, _, _)
LStrip(text, start, end) ==
  IF start < end /\ CharAt(text, start) \in Whitespace
  THEN LStrip(text, start + 1, end)
  ELSE start

RECURSIVE RStrip(_, _, _)
RStrip(text, start, end) ==
  IF start < end /\ CharAt(text, end - 1) \in Whitespace
  THEN RStrip(text, start, end - 1)
  ELSE end

Slice(text, start, end) ==
  [start |-> Min(start, text.len), end |-> Max(Min(start, text.len), Min(end, text.len))]

\* text[start:end].strip()
Strip(text, start, end) ==
  LET s  == Slice(text, start, end)
      ls == LStrip(text, s.start, s.end)
  IN  [start |-> ls, end |-> RStrip(text, ls, s.end)]

\* The characters of a span, as a string of the alphabet.
Chars(text, span) ==
  [i \in 1..(span.end - span.start) |-> CharAt(text, span.start + i - 1)]

\* EmbeddingService.__init__: the overlap is clamped to a quarter of the chunk.
ChunkOverlap(configured, chunk_size) == Min(configured, chunk_size \div 4)

MinChunkEndAtStart(start, chunk_size) == start

MinChunkEnd(start, chunk_size) == start + chunk_size \div 2

\* The end of the chunk that starts at start: the last paragraph break of the
\* second half of the window, else the character after the last sentence
\* break there, else the window's end.
ChunkEnd(text, start, chunk_size) ==
  LET end           == start + chunk_size
      min_chunk_end == MinChunkEnd(start, chunk_size)
  IN  IF end < text.len /\ end > min_chunk_end
      THEN LET paragraph_break == RFind(text, "\n", "\n", min_chunk_end, end)
               sentence_break  == RFind(text, ".", " ", min_chunk_end, end)
           IN  IF paragraph_break > start THEN paragraph_break
               ELSE IF sentence_break > start THEN sentence_break + 1
               ELSE end
      ELSE end

MinForwardProgress(chunk_size) == Max(MinForwardFloor, chunk_size \div 20)

NextStartHalfBack(start, end, chunk_overlap, chunk_size) ==
  end - chunk_size \div 2

NextStartPastEnd(start, end, chunk_overlap, chunk_size) ==
  end + 1

NextStart(start, end, chunk_overlap, chunk_size) ==
  LET next_start == end - chunk_overlap
  IN  IF next_start <= start
      THEN start + MinForwardProgress(chunk_size)
      ELSE next_start

\* The call as it starts: the configuration the service was built with and
\* the cursor before the first iteration.
NewCall(text, chunk_size, configured_overlap) ==
  [pc              |-> "call",
   text            |-> text,
   chunk_size      |-> chunk_size,
   chunk_overlap   |-> ChunkOverlap(configured_overlap, chunk_size),
   start           |-> 0,
   iteration_count |-> 0,
   span            |-> [start |-> 0, end |-> 0],
   chunk           |-> [start |-> 0, end |-> 0],
   appended        |-> FALSE,
   chunk_count     |-> 0]

\* The early return of a text that fits one chunk: [text], as it is.
ChunkStart ==
  /\ chunker.pc = "call"
  /\ chunker' =
       IF chunker.text.len <= chunker.chunk_size
       THEN [chunker EXCEPT
               !.pc          = "done",
               !.span        = [start |-> 0, end |-> chunker.text.len],
               !.chunk       = [start |-> 0, end |-> chunker.text.len],
               !.appended    = TRUE,
               !.chunk_count = 1]
       ELSE [chunker EXCEPT !.pc = "loop"]
  /\ UNCHANGED <<tables, stream, gather, merge>>

\* One iteration of the while loop, the test of its condition included.
ChunkStep ==
  /\ chunker.pc = "loop"
  /\ LET text  == chunker.text
         start == chunker.start
         end   == ChunkEnd(text, start, chunker.chunk_size)
         chunk == Strip(text, start, end)
         next  == NextStart(start, end, chunker.chunk_overlap,
                            chunker.chunk_size)
     IN  chunker' =
           IF start >= text.len
           THEN [chunker EXCEPT !.pc = "done"]
           ELSE IF chunker.iteration_count + 1 > IterationCeiling
           THEN [chunker EXCEPT
                   !.pc              = "cut",
                   !.iteration_count = @ + 1]
           ELSE [chunker EXCEPT
                   !.pc              = IF end >= text.len \/ next >= text.len
                                       THEN "done" ELSE "loop",
                   !.iteration_count = @ + 1,
                   !.start           = IF end >= text.len THEN start ELSE next,
                   !.span            = [start |-> start, end |-> end],
                   !.chunk           = chunk,
                   !.appended        = chunk.end > chunk.start,
                   !.chunk_count     = IF chunk.end > chunk.start
                                       THEN @ + 1 ELSE @]
  /\ UNCHANGED <<tables, stream, gather, merge>>

\* ------------------------------------------------------- streaming embedding
\* EmbeddingService._generate_and_save_embeddings_streaming.  Chunks are named
\* by their index in `chunks`; a buffer is the set of chunks it holds.
StreamEnd(stream_start, total_chunks) ==
  Min(stream_start + StreamBatchSize, total_chunks)

\* chunks[stream_start:stream_end]
StreamChunks(stream_start, total_chunks) ==
  stream_start..(StreamEnd(stream_start, total_chunks) - 1)

OpenAIBatchWholeStream(stream_chunks, stream_start, i) ==
  {c \in stream_chunks : c >= stream_start + i}

\* stream_chunks[i : i + openai_batch_size]
OpenAIBatch(stream_chunks, stream_start, i) ==
  {c \in stream_chunks :
     c >= stream_start + i /\ c < stream_start + i + OpenAIBatchSize}

\* The call as it starts, before the first stream batch.
NewStream(total_chunks) ==
  [pc                |-> "stream_batch",
   total_chunks      |-> total_chunks,
   stream_start      |-> 0,
   i                 |-> 0,
   stream_embeddings |-> {},
   chunk_batch       |-> {},
   request           |-> {},
   rows              |-> {},
   total_saved       |-> 0,
   chunk_count       |-> 0 - 1,
   success           |-> FALSE]

\* The head of the outer loop: the next stream batch with an empty embedding
\* buffer, or past the last one the final chunk_count and the success result.
StreamBatchStart ==
  /\ stream.pc = "stream_batch"
  /\ stream' =
       IF stream.stream_start < stream.total_chunks
       THEN [stream EXCEPT
               !.pc                = "openai_batch",
               !.i                 = 0,
               !.stream_embeddings = {}]
       ELSE [stream EXCEPT
               !.pc          = "returned",
               !.chunk_count = stream.total_saved,
               !.success     = TRUE]
  /\ UNCHANGED <<tables, chunker, gather, merge>>

\* One provider request of the inner loop: its embeddings join the buffer, or
\* the request times out or fails and the call returns the failure.
OpenAIRequest(ok) ==
  /\ stream.pc = "openai_batch"
  /\ LET stream_chunks == StreamChunks(stream.stream_start, stream.total_chunks)
         openai_batch  == OpenAIBatch(stream_chunks, stream.stream_start, stream.i)
     IN  /\ stream.i < Cardinality(stream_chunks)
         /\ stream' =
              IF ok
              THEN [stream EXCEPT
                      !.request           = openai_batch,
                      !.stream_embeddings = @ \cup openai_batch,
                      !.i                 = @ + OpenAIBatchSize]
              ELSE [stream EXCEPT
                      !.pc                = "returned",
                      !.request           = openai_batch,
                      !.stream_embeddings = {},
                      !.success           = FALSE]
  /\ UNCHANGED <<tables, chunker, gather, merge>>

\* After the inner loop: the rows of the stream batch are built from
\* zip(stream_chunks, stream_embeddings), with chunk_index = stream_start + i.
StreamBuild ==
  /\ stream.pc = "openai_batch"
  /\ LET stream_chunks == StreamChunks(stream.stream_start, stream.total_chunks)
     IN  /\ stream.i >= Cardinality(stream_chunks)
         /\ stream' = [stream EXCEPT
                         !.pc          = "insert",
                         !.chunk_batch = stream_chunks \cap stream.stream_embeddings]
  /\ UNCHANGED <<tables, chunker, gather, merge>>

\* The insert of the rows: then the buffers are deleted and the outer loop
\* moves on; an insert that raises ends the call with the failure.
StreamInsert(ok) ==
  /\ stream.pc = "insert"
  /\ stream' =
       IF ok
       THEN [stream EXCEPT
               !.pc                = "stream_batch",
               !.rows              = @ \cup stream.chunk_batch,
               !.total_saved       = @ + Cardinality(stream.chunk_batch),
               !.stream_embeddings = {},
               !.chunk_batch       = {},
               !.stream_start      = @ + StreamBatchSize]
       ELSE [stream EXCEPT
               !.pc                = "returned",
               !.stream_embeddings = {},
               !.chunk_batch       = {},
               !.success           = FALSE]
  /\ UNCHANGED <<tables, chunker, gather, merge>>

\* ------------------------------------------------------------ process_batch
\* ProcessingService.process_batch and _process_file_with_semaphore.  The
\* tasks of asyncio.gather are the runs marked `task`; a task holds the
\* semaphore from the start of its run until the run returns or raises.
NewTaskRun(f) == [file |-> f, pc |-> "start", chunks |-> 0, task |-> TRUE]

TaskRuns == {r \in BagToSet(runs) : "task" \in DOMAIN r}

Returned == {"returned_success", "returned_failure", "raised"}

\* The tasks inside `async with semaphore`.
Holding == {r \in TaskRuns : r.pc \notin Returned}

\* The files whose task has entered `async with semaphore`.
Started == {r.file : r \in TaskRuns}

Lowest(S) == CHOOSE i \in S : \A j \in S : i <= j

SemaphoreFreeAlways(held) == TRUE

\* asyncio.Semaphore(max_concurrent_files): acquire goes through while fewer
\* than max_concurrent_files tasks hold it.
SemaphoreFree(held) == held < MaxConcurrentFiles

GatherResponse(success, outcome) ==
  [success |-> success, outcome |-> outcome, total_files |-> 0,
   successful_files |-> 0, failed_files |-> 0]

\* process_batch up to asyncio.gather: the SELECT of the batch's files, the
\* two refusals, the batch status, the semaphore and one task per file that
\* reads uploaded.
ProcessBatchSelect(b) ==
  /\ gather.pc = "none"
  /\ LET members  == BatchMembers(files, b)
         file_ids == {f \in members : files[f].status = "uploaded"}
     IN  IF members = {}
         THEN /\ gather' = [pc |-> "returned", batch_id |-> b, file_ids |-> {},
                            results |-> <<>>,
                            response |-> GatherResponse(FALSE, "no_files_found")]
              /\ batches' = batches
         ELSE IF file_ids = {}
         THEN /\ gather' = [pc |-> "returned", batch_id |-> b, file_ids |-> {},
                            results |-> <<>>,
                            response |-> GatherResponse(FALSE, "no_files_ready")]
              /\ batches' = batches
         ELSE /\ gather' = [pc |-> "gather", batch_id |-> b, file_ids |-> file_ids,
                            results |-> <<>>,
                            response |-> GatherResponse(FALSE, "none")]
              /\ batches' = [batches EXCEPT ![b].status = "processing"]
  /\ UNCHANGED <<files, docs, runs, bg, edits, retries, storage, result,
                 embeddings, document_fk_set_null, chunker, stream, merge>>

\* _process_file_with_semaphore: the first waiting task (the semaphore wakes
\* its waiters in order) acquires the semaphore and its run starts.
TaskAcquire ==
  /\ gather.pc = "gather"
  /\ gather.file_ids \ Started # {}
  /\ SemaphoreFree(Cardinality(Holding))
  /\ runs' = runs (+) SetToBag({NewTaskRun(Lowest(gather.file_ids \ Started))})
  /\ UNCHANGED <<files, docs, batches, bg, edits, retries, storage, result,
                 embeddings, document_fk_set_null, calls>>

\* The except branch of _process_file_pipeline when its own status write
\* fails: _delete_failed_document has run, _update_file_status re-raises and
\* the exception leaves the run; asyncio.gather keeps it as the result.
TaskRaise(r) ==
  /\ r \in Holding
  /\ r.pc \in {"metadata", "finish"}
  /\ docs' = DeleteFailedDocument(docs, files, r.file)
  /\ runs' = Replace(r, [r EXCEPT !.pc = "raised"])
  /\ UNCHANGED <<files, batches, bg, edits, retries, storage, result,
                 embeddings, document_fk_set_null, calls>>

SuccessfulAnyDict(rs) ==
  Cardinality({r \in rs : r.pc \in {"returned_success", "returned_failure"}})

\* sum(1 for r in results if isinstance(r, dict) and r.get("success"))
Successful(rs) == Cardinality({r \in rs : r.pc = "returned_success"})

\* process_batch after asyncio.gather returned: the tally, the final batch
\* status and the response.
ProcessBatchTally ==
  /\ gather.pc = "gather"
  /\ gather.file_ids = Started
  /\ Holding = {}
  /\ LET successful == Successful(TaskRuns)
         failed     == Cardinality(TaskRuns) - successful
         status     == IF failed = 0 THEN "processing_complete" ELSE "failed"
     IN  /\ batches' = [batches EXCEPT
                          ![gather.batch_id].status = status,
                          ![gather.batch_id].processed_files = successful,
                          ![gather.batch_id].failed_files = failed]
         /\ gather' = [gather EXCEPT
                         !.pc       = "returned",
                         !.results  = [f \in gather.file_ids |->
                                         (CHOOSE r \in TaskRuns : r.file = f).pc],
                         !.response = [success          |-> TRUE,
                                       outcome          |-> status,
                                       total_files      |-> Cardinality(gather.file_ids),
                                       successful_files |-> successful,
                                       failed_files     |-> failed]]
  /\ runs' = runs (-) SetToBag(TaskRuns)
  /\ UNCHANGED <<files, docs, bg, edits, retries, storage, result,
                 embeddings, document_fk_set_null, chunker, stream, merge>>

\* ------------------------------------------------------------ specification
Queue == \E s \in bg : BackgroundQueue(s)

StageExtract ==
  \E r \in BagToSet(runs), ok \in BOOLEAN, has_text \in BOOLEAN, n \in 0..MaxChunks :
    Extract(r, ok, has_text, n)

StageEmbedStart == \E r \in BagToSet(runs) : EmbedStart(r)

StageEmbedStore == \E r \in BagToSet(runs), ok \in BOOLEAN : EmbedStore(r, ok)

StageMarkReady == \E r \in BagToSet(runs) : MarkReady(r)

StageMetadataStart ==
  \E r \in BagToSet(runs), db_ok \in BOOLEAN : MetadataStart(r, db_ok)

StageMetadataResult == \E r \in BagToSet(runs), ok \in BOOLEAN : MetadataResult(r, ok)

StageFinish == \E r \in BagToSet(runs), db_ok \in BOOLEAN : Finish(r, db_ok)

StageRecheck == \E r \in BagToSet(runs) : RecheckBatch(r)

Pipeline ==
  \/ StageExtract
  \/ StageEmbedStart
  \/ StageEmbedStore
  \/ StageMarkReady
  \/ StageMetadataStart
  \/ StageMetadataResult
  \/ StageFinish
  \/ StageRecheck

Approve == \E f \in DOMAIN files, review \in Reviews : ApproveFileForLibrary(f, review)

Reject == \E f \in DOMAIN files, review \in Reviews : RejectFile(f, review)

EditCheck == \E d \in DOMAIN docs : EditMetadataCheck(d)

EditWrite == \E d \in edits, review \in Reviews : EditMetadataWrite(d, review)

Delete == \E d \in DOMAIN docs : DeleteDocument(d)

\* In the review specification one retry call is answered before the next.
Retry == \E f \in DOMAIN files : retries = EmptyBag /\ RetryRead(f)

Reset == \E t \in BagToSet(retries) : RetryReset(t)

Requeue == \E t \in BagToSet(retries) : RetryQueue(t)

\* Review specification: every operation, on MaxFiles uploaded files.
Upload == \E req \in Requests(1..MaxFiles, MaxFiles) : UploadFiles(req)

Init == InitTables(MaxFiles, MaxFiles)

Next ==
  \/ Upload
  \/ Queue
  \/ Pipeline
  \/ Approve
  \/ Reject
  \/ EditCheck
  \/ EditWrite
  \/ Delete
  \/ Retry
  \/ Reset
  \/ Requeue

Spec == Init /\ [][Next]_vars

\* Batch specification: one request of up to BatchFiles valid files with
\* pairwise different contents, taken through the pipeline and approved.
BatchRequests ==
  {[i \in 1..n |-> [hash |-> i, valid |-> TRUE, store_ok |-> TRUE]] :
     n \in 1..BatchFiles}

UploadBatch == \E req \in BatchRequests : UploadFiles(req)

\* The reviewer of the batch specification approves files shown in the
\* review queue, i.e. files whose status reads review_pending.
ApproveBatch ==
  \E f \in DOMAIN files :
    files[f].status = "review_pending" /\ ApproveFileForLibrary(f, 1)

InitBatch == InitTables(BatchFiles, 1)

NextBatch ==
  \/ UploadBatch
  \/ Queue
  \/ Pipeline
  \/ ApproveBatch

SpecBatch == InitBatch /\ [][NextBatch]_vars

\* Upload specification: requests of any mix of contents, valid and invalid
\* files; documents are soft-deleted and, by failed runs, hard-deleted.
UploadAny == \E req \in Requests(1..UploadHashes, UploadRows) : UploadFiles(req)

\* Requests the batch-size check turns away: no file at all, or one file more
\* than the limit.
RefusedRequests ==
  {<<>>} \cup {[i \in 1..(MaxFilesPerBatch + 1) |-> item] :
                item \in UploadItems(1..UploadHashes)}

UploadRefused == \E req \in RefusedRequests : UploadFiles(req)

InitUpload == InitTables(UploadRows, UploadJobs)

NextUpload ==
  \/ UploadAny
  \/ Delete
  \/ Queue
  \/ Pipeline

SpecUpload == InitUpload /\ [][NextUpload]_vars

\* Validation specification: upload requests of every size, the refused ones
\* included, and deletions, with no pipeline running.
NextValidate ==
  \/ UploadAny
  \/ UploadRefused
  \/ Delete

SpecValidate == InitUpload /\ [][NextValidate]_vars

\* Retry specification: one file, its pipeline runs and retry calls that
\* overlap; a further call arrives while fewer than MaxRetryCalls calls and
\* runs are in flight.
UploadOne == \E req \in Requests({1}, 1) : UploadFiles(req)

RetryAny ==
  \E f \in DOMAIN files :
    /\ BagCardinality(retries) + BagCardinality(runs) < MaxRetryCalls
    /\ RetryRead(f)

InitRetry == InitTables(1, 1)

NextRetry ==
  \/ UploadOne
  \/ Queue
  \/ Pipeline
  \/ RetryAny
  \/ Reset
  \/ Requeue

SpecRetry == InitRetry /\ [][NextRetry]_vars

\* Queue specification: one file, uploaded, queued, run and retried, one
\* retry call at a time, under either treatment of a deleted Document by the
\* foreign key of the file row; every task the event loop holds is eventually
\* run to its next await, and every external call returns.
NextQueued ==
  \/ UploadOne
  \/ Queue
  \/ Pipeline
  \/ Retry
  \/ Reset
  \/ Requeue

Fairness ==
  /\ WF_vars(Queue)
  /\ WF_vars(Pipeline)
  /\ WF_vars(Reset)
  /\ WF_vars(Requeue)

InitQueued ==
  /\ InitRows(1, 1)
  /\ document_fk_set_null \in BOOLEAN

SpecQueued == InitQueued /\ [][NextQueued]_vars /\ Fairness

\* The chunker on its own, over every short text of the alphabet and every
\* small configuration.
ShortTexts ==
  UNION {{TextOf(f, n) : f \in [0..(n - 1) -> Alphabet]} : n \in 0..MaxTextLen}

NoTables ==
  /\ files = <<>>
  /\ docs = <<>>
  /\ batches = <<>>
  /\ runs = EmptyBag
  /\ bg = {}
  /\ edits = {}
  /\ retries = EmptyBag
  /\ storage = {}
  /\ result = NoResult
  /\ embeddings = FALSE
  /\ document_fk_set_null = FALSE

InitChunk ==
  /\ NoTables
  /\ stream = NoCall
  /\ gather = NoCall
  /\ merge = NoCall
  /\ chunker \in {NewCall(text, chunk_size, overlap) :
                    text \in ShortTexts,
                    chunk_size \in 1..MaxChunkSize,
                    overlap \in 0..MaxOverlap}

NextChunk ==
  \/ ChunkStart
  \/ ChunkStep

SpecChunk == InitChunk /\ [][NextChunk]_vars

\* The chunker with the default configuration on texts one and a half chunks
\* long (1,500 characters) that hold up to MaxBreaks paragraph or sentence
\* breaks among plain letters.
ScenarioLength == DefaultChunkSize + DefaultChunkSize \div 2

Breaks ==
  {[at |-> at, kind |-> kind] :
     at \in {p \in {GridStep * k - d : k \in 0..(ScenarioLength \div GridStep),
                                      d \in 0..MaxOffset} :
               p >= 0 /\ p + 2 <= ScenarioLength},
     kind \in {"paragraph", "sentence"}}

Apart(B, b) == \A c \in B : c.at + 2 <= b.at \/ b.at + 2 <= c.at

RECURSIVE BreakSets(_)
BreakSets(n) ==
  IF n = 0 THEN {{}}
  ELSE LET S == BreakSets(n - 1)
       IN  S \cup {x[1] \cup {x[2]} : x \in {y \in S \X Breaks : Apart(y[1], y[2])}}

\* The text of len letters with "\n\n" at each paragraph break and ". " at
\* each sentence break.
BreakText(len, B) ==
  [len     |-> len,
   special |-> [i \in UNION {{b.at, b.at + 1} : b \in B} |->
                  LET b == CHOOSE c \in B : i \in {c.at, c.at + 1}
                  IN  IF b.kind = "paragraph" THEN "\n"
                      ELSE IF i = b.at THEN "." ELSE " "]]

InitScenario ==
  /\ NoTables
  /\ stream = NoCall
  /\ gather = NoCall
  /\ merge = NoCall
  /\ chunker \in {NewCall(BreakText(ScenarioLength, B),
                           DefaultChunkSize, DefaultChunkOverlap) :
                    B \in BreakSets(MaxBreaks)}

SpecScenario == InitScenario /\ [][NextChunk]_vars

\* The chunker with the default configuration on long texts of plain letters:
\* the longest text the extraction stage accepts, and a text that as many
\* iterations as the ceiling allows step through.
LongLengths ==
  {MaxExtractedTextLength,
   IterationCeiling * (DefaultChunkSize - DefaultChunkOverlap)}

InitLong ==
  /\ NoTables
  /\ stream = NoCall
  /\ gather = NoCall
  /\ merge = NoCall
  /\ chunker \in {NewCall([len |-> len, special |-> <<>>],
                           DefaultChunkSize, DefaultChunkOverlap) :
                    len \in LongLengths}

SpecLong == InitLong /\ [][NextChunk]_vars

\* The streaming embedding on its own, for every number of chunks up to
\* MaxStreamChunks.
Request == \E ok \in BOOLEAN : OpenAIRequest(ok)

Insert == \E ok \in BOOLEAN : StreamInsert(ok)

InitStream ==
  /\ NoTables
  /\ chunker = NoCall
  /\ gather = NoCall
  /\ merge = NoCall
  /\ stream \in {NewStream(total_chunks) : total_chunks \in 0..MaxStreamChunks}

NextStream ==
  \/ StreamBatchStart
  \/ Request
  \/ StreamBuild
  \/ Insert

SpecStream == InitStream /\ [][NextStream]_vars

\* One process_batch call on a batch of up to GatherFiles files, some of
\* which the upload's background task may have queued before the call; the
\* embedding provider is not configured.  Only the runs of the call's tasks
\* are followed; a run fails in its extraction, raises from its last step or
\* succeeds.
UploadGather ==
  \E n \in 1..GatherFiles :
    UploadFiles([i \in 1..n |-> [hash |-> i, valid |-> TRUE, store_ok |-> TRUE]])

QueueBeforeCall == gather.pc = "none" /\ Queue

ProcessBatch == \E b \in DOMAIN batches : ProcessBatchSelect(b)

TaskExtract == \E r \in TaskRuns, ok \in BOOLEAN : Extract(r, ok, TRUE, 0)

TaskMarkReady == \E r \in TaskRuns : MarkReady(r)

TaskMetadataStart == \E r \in TaskRuns : MetadataStart(r, TRUE)

TaskMetadataResult == \E r \in TaskRuns : MetadataResult(r, TRUE)

TaskFinish == \E r \in TaskRuns : Finish(r, TRUE)

TaskRecheck == \E r \in TaskRuns : RecheckBatch(r)

TaskRaises == \E r \in TaskRuns : r.pc = "finish" /\ TaskRaise(r)

InitGather == InitTables(GatherFiles, 1) /\ ~embeddings

NextGather ==
  \/ UploadGather
  \/ QueueBeforeCall
  \/ ProcessBatch
  \/ TaskAcquire
  \/ TaskExtract
  \/ TaskMarkReady
  \/ TaskMetadataStart
  \/ TaskMetadataResult
  \/ TaskFinish
  \/ TaskRecheck
  \/ TaskRaises
  \/ ProcessBatchTally

SpecGather == InitGather /\ [][NextGather]_vars

\* ------------------------------------------------------- metadata merging
\* Values of the metadata dictionaries: None (or an absent key), a string, a
\* list. A case name is kept as its sequence of words.
JsonNull == [null |-> TRUE]

JsonString(s) == [string |-> s]

JsonList(q) == [list |-> q]

\* Python truth value of such a value.
Truthy(v) == v # JsonNull /\ v # JsonString("") /\ v # JsonList(<<>>)

Filename == JsonString("file.pdf")

\* _extract_title_from_filename.
TitleFromFilename == JsonString("File")

\* What the provider may answer: the JSON object of the model.
LlmResponses ==
  [title : {JsonNull, JsonString("Unknown Title"), JsonString("llm title")},
   bluebook_citation : {JsonNull, JsonString("llm citation")},
   court : {JsonNull, JsonString("llm court")},
   keywords : {<<>>, <<"damages">>, <<"Smith", "damages">>}]

\* What _extract_pattern_metadata may return for a text.
PatternResults ==
  [dollar_amounts : {JsonNull, JsonList(<<"$100">>)},
   potential_discount_rates : {JsonNull, JsonList(<<"5.0">>)},
   case_names : {JsonNull, JsonList(<<(<<"Smith", "v.", "Li">>)>>)},
   court : {JsonNull, JsonString("District Court")}]

Providers == {"anthropic", "openai", "none"}

NoMetadata ==
  [title |-> JsonNull, bluebook_citation |-> JsonNull, keywords |-> <<>>,
   court |-> JsonNull, case_citations |-> JsonNull,
   identified_amounts |-> JsonNull, identified_rates |-> JsonNull]

NoUpdate ==
  [ai_title |-> JsonNull, ai_keywords |-> <<>>, ai_bluebook_citation |-> JsonNull,
   ai_court |-> JsonNull, ai_identified_amounts |-> JsonNull,
   ai_identified_rates |-> JsonNull]

\* _validate_metadata: a dictionary of the nine known fields and no other, so
\* a court in the answer is dropped; a missing title gets the default.
ValidateMetadata(raw) ==
  [NoMetadata EXCEPT
     !.title = IF raw.title = JsonNull THEN JsonString("Unknown Title") ELSE raw.title,
     !.bluebook_citation = raw.bluebook_citation,
     !.keywords = raw.keywords]

\* _extract_basic_metadata, used when no provider is configured.
BasicMetadata ==
  [NoMetadata EXCEPT !.title = JsonString("File")]

LongerThanTwo(word) == word \notin {"v.", "Li"}

NotVersus(word) == word # "v."

\* case.replace(" v. ", " ").split(), then the words longer than two letters.
PartyKeywords(case) == SelectSeq(SelectSeq(case, NotVersus), LongerThanTwo)

RECURSIVE CaseKeywords(_)
CaseKeywords(cases) ==
  IF cases = <<>> THEN <<>>
  ELSE PartyKeywords(Head(cases)) \o CaseKeywords(Tail(cases))

\* list(dict.fromkeys(q)): the first occurrence of each element, in order.
RECURSIVE Dedupe(_)
Dedupe(q) ==
  IF q = <<>> THEN <<>>
  ELSE LET rest == Dedupe(SubSeq(q, 1, Len(q) - 1))
           last == q[Len(q)]
       IN IF \E i \in 1..Len(rest) : rest[i] = last THEN rest ELSE Append(rest, last)

Prefix(q, n) == SubSeq(q, 1, Min(n, Len(q)))

\* _save_metadata: metadata.get("case_citations") or metadata["bluebook_citation"].
SavedCitation(metadata) ==
  IF Truthy(metadata.case_citations)
    THEN metadata.case_citations
    ELSE metadata.bluebook_citation

\* _extract_metadata_with_ai, lines 131-163: the merge of the pattern results
\* into the validated metadata.
MergePatternMetadata(metadata, pattern) ==
  LET ai_keywords ==
        IF Truthy(pattern.case_names)
          THEN metadata.keywords
                 \o CaseKeywords(Prefix(pattern.case_names.list, CaseKeywordLimit))
          ELSE metadata.keywords
  IN [title |-> IF ~Truthy(metadata.title)
                     \/ metadata.title \in {JsonString("Unknown Title"), Filename}
                  THEN TitleFromFilename
                  ELSE metadata.title,
      bluebook_citation |-> metadata.bluebook_citation,
      identified_amounts |-> IF Truthy(pattern.dollar_amounts)
                               THEN pattern.dollar_amounts
                               ELSE metadata.identified_amounts,
      identified_rates |-> IF Truthy(pattern.potential_discount_rates)
                             THEN pattern.potential_discount_rates
                             ELSE metadata.identified_rates,
      case_citations |-> IF Truthy(pattern.case_names)
                           THEN pattern.case_names
                           ELSE metadata.case_citations,
      court |-> IF Truthy(pattern.court) /\ ~Truthy(metadata.court)
                  THEN pattern.court
                  ELSE metadata.court,
      keywords |-> Prefix(Dedupe(ai_keywords), KeywordLimit)]

\* _save_metadata, update_data: the columns written to the file row.
UpdateData(metadata) ==
  [ai_title |-> metadata.title,
   ai_keywords |-> metadata.keywords,
   ai_bluebook_citation |-> SavedCitation(metadata),
   ai_court |-> metadata.court,
   ai_identified_amounts |-> metadata.identified_amounts,
   ai_identified_rates |-> metadata.identified_rates]

NewMerge(provider, llm, pattern) ==
  [pc |-> "provider", provider |-> provider, llm |-> llm, pattern |-> pattern,
   metadata |-> NoMetadata, saved |-> NoUpdate]

\* The provider call: its validated answer, the basic metadata when no
\* provider is configured, or a failure that ends the stage.
ProviderAnswer(ok) ==
  /\ merge.pc = "provider"
  /\ merge.provider = "none" => ok
  /\ merge' = IF ~ok
                THEN [merge EXCEPT !.pc = "returned_failure"]
                ELSE [merge EXCEPT !.pc = "merge",
                        !.metadata = IF merge.provider = "none"
                                       THEN BasicMetadata
                                       ELSE ValidateMetadata(merge.llm)]
  /\ UNCHANGED <<tables, chunker, stream, gather>>

MergeStep ==
  /\ merge.pc = "merge"
  /\ merge' = [merge EXCEPT !.pc = "save",
                 !.metadata = MergePatternMetadata(merge.metadata, merge.pattern)]
  /\ UNCHANGED <<tables, chunker, stream, gather>>

\* extract_metadata: the save, whose failure raises into analysis_failed.
SaveStep(db_ok) ==
  /\ merge.pc = "save"
  /\ merge' = IF db_ok
                THEN [merge EXCEPT !.pc = "saved", !.saved = UpdateData(merge.metadata)]
                ELSE [merge EXCEPT !.pc = "analysis_failed"]
  /\ UNCHANGED <<tables, chunker, stream, gather>>

Answer == \E ok \in BOOLEAN : ProviderAnswer(ok)

Save == \E db_ok \in BOOLEAN : SaveStep(db_ok)

InitMerge ==
  /\ NoTables
  /\ chunker = NoCall
  /\ stream = NoCall
  /\ gather = NoCall
  /\ merge \in {NewMerge(provider, llm, pattern) :
                  provider \in Providers, llm \in LlmResponses,
                  pattern \in PatternResults}

NextMerge ==
  \/ Answer
  \/ MergeStep
  \/ Save

SpecMerge == InitMerge /\ [][NextMerge]_vars

\* ------------------------------------------------- provider selection
\* confidence_scores["overall"] in tenths; 0 when the answer carries none.
BasicConfidence == 5

LlmConfidences == {0, 9}

\* _extract_metadata_with_ai, lines 120-126: one branch of the if / elif /
\* else over the two clients that __init__ built from the configured keys.
SelectProvider(anthropic_client, openai_client) ==
  IF anthropic_client THEN "anthropic"
  ELSE IF openai_client THEN "openai"
  ELSE "none"

NewExtraction(anthropic_client, openai_client, llm, pattern) ==
  [pc |-> "select", anthropic_client |-> anthropic_client,
   openai_client |-> openai_client, provider |-> "unset", called |-> <<>>,
   llm |-> llm, pattern |-> pattern, metadata |-> NoMetadata,
   extraction_method |-> "unset", confidence |-> 0, saved |-> NoUpdate]

\* The branch is taken and the call of the chosen provider is issued.
SelectStep ==
  /\ merge.pc = "select"
  /\ LET provider == SelectProvider(merge.anthropic_client, merge.openai_client)
     IN merge' = [merge EXCEPT !.pc = "provider", !.provider = provider,
                    !.called = IF provider = "none" THEN <<>> ELSE <<provider>>]
  /\ UNCHANGED <<tables, chunker, stream, gather>>

\* The chosen call returns: _extract_with_anthropic and _extract_with_openai
\* answer success with the validated metadata or a failure (API error or
\* invalid JSON); _extract_basic_metadata always answers success. Line 128
\* returns a failure to extract_metadata, which writes analysis_failed.
ExtractStep(ok, conf) ==
  /\ merge.pc = "provider"
  /\ merge.provider = "none" => ok /\ conf = BasicConfidence
  /\ merge.provider # "none" => conf \in LlmConfidences
  /\ merge' = IF ~ok
                THEN [merge EXCEPT !.pc = "returned_failure"]
                ELSE [merge EXCEPT !.pc = "merge",
                        !.metadata = IF merge.provider = "none"
                                       THEN BasicMetadata
                                       ELSE ValidateMetadata(merge.llm),
                        !.extraction_method = IF merge.provider = "none"
                                                THEN "basic_heuristics"
                                                ELSE "unset",
                        !.confidence = conf]
  /\ UNCHANGED <<tables, chunker, stream, gather>>

ExtractWithProvider == \E ok \in BOOLEAN, conf \in LlmConfidences \cup {BasicConfidence} : ExtractStep(ok, conf)

InitProvider ==
  /\ NoTables
  /\ chunker = NoCall
  /\ stream = NoCall
  /\ gather = NoCall
  /\ merge \in {NewExtraction(anthropic_client, openai_client, llm, pattern) :
                  anthropic_client \in BOOLEAN, openai_client \in BOOLEAN,
                  llm \in LlmResponses, pattern \in PatternResults}

NextProvider ==
  \/ SelectStep
  \/ ExtractWithProvider
  \/ MergeStep
  \/ Save

SpecProvider == InitProvider /\ [][NextProvider]_vars

\* ------------------------------------------------------------- webhooks
\* The secret the deployment shares with the sender, and one a caller picks.
ServerSecret == "shared-secret"

CallerSecret == "caller-secret"

\* The raw bodies: a JSON object of each event type, of an unknown type, and
\* bytes that are not JSON.
WebhookEvents ==
  {"file_processing_completed", "batch_processing_completed", "processing_error"}

WebhookBodies == WebhookEvents \cup {"unknown_event", "not_json"}

\* hmac.new(secret, payload, sha256).hexdigest(): a digest that two pairs of
\* secret and payload share only when the pairs are equal.
Hmac(secret, payload) == <<"sha256", secret, payload>>

NoSignature == [present |-> FALSE, prefixed |-> FALSE, hex |-> Hmac("", "")]

\* The X-Signature header: absent, or a digest sent raw or after "sha256=".
Signatures ==
  {NoSignature}
    \cup [present : {TRUE}, prefixed : BOOLEAN,
          hex : {Hmac(secret, payload) :
                   secret \in {ServerSecret, CallerSecret},
                   payload \in WebhookBodies}]

\* The X-Webhook-Secret header; "" stands for the absent header.
SecretHeaders == {"", ServerSecret, CallerSecret}

WebhookRequests ==
  [body : WebhookBodies, x_signature : Signatures, x_webhook_secret : SecretHeaders]

\* verify_webhook_signature: the prefix is stripped, the rest compared.
VerifyWebhookSignature(payload, signature, secret) ==
  IF secret = "" THEN TRUE
  ELSE signature.hex = Hmac(secret, payload)

\* Line 60: x_webhook_secret or settings.webhook_secret. Settings declares no
\* webhook_secret field, so the right operand raises AttributeError, which the
\* handler of line 89 turns into a 500.
SettingsWebhookSecret == "AttributeError"

WebhookSecret(x_webhook_secret) ==
  IF x_webhook_secret # "" THEN x_webhook_secret ELSE SettingsWebhookSecret

\* Lines 59-63: the signature is verified when a secret and a signature are
\* both present, and not otherwise.
SignatureRefused(req) ==
  /\ req.x_signature.present
  /\ ~VerifyWebhookSignature(req.body, req.x_signature, WebhookSecret(req.x_webhook_secret))

\* Lines 65-85: the handler the payload is dispatched to.
WebhookHandler(req) ==
  IF WebhookSecret(req.x_webhook_secret) = SettingsWebhookSecret THEN "none"
  ELSE IF SignatureRefused(req) THEN "none"
  ELSE IF req.body \in WebhookEvents THEN req.body
  ELSE "none"

\* The three handlers reach their UPDATE through db.supabase, a property whose
\* getter is a coroutine function: the attribute read yields a coroutine
\* object, table() on it raises AttributeError, and each handler answers 500
\* without a write (handle_file_processing_completed raises before that, on
\* FileStatus.READY_FOR_REVIEW, which the enum does not define).
HandlerOutcome(handler) == "handler_failed_500"

WebhookOutcome(req) ==
  IF WebhookSecret(req.x_webhook_secret) = SettingsWebhookSecret THEN "failed_500"
  ELSE IF SignatureRefused(req) THEN "invalid_signature_401"
  ELSE IF req.body = "not_json" THEN "invalid_json_400"
  ELSE IF req.body \notin WebhookEvents THEN "ignored"
  ELSE HandlerOutcome(WebhookHandler(req))

\* processing_status_webhook.
ProcessingStatusWebhook(req) ==
  /\ result' = [op |-> "webhook", outcome |-> WebhookOutcome(req),
                per_file |-> <<>>, request |-> req,
                handler |-> WebhookHandler(req)]
  /\ UNCHANGED <<files, docs, batches, bg, storage>>
  /\ UNCHANGED <<runs, edits, retries, embeddings, document_fk_set_null, calls>>

Webhook == \E req \in WebhookRequests : ProcessingStatusWebhook(req)

\* Webhook specification: one uploaded file and webhook requests.
NextWebhook ==
  \/ UploadOne
  \/ Webhook

SpecWebhook == InitRetry /\ [][NextWebhook]_vars

\* ------------------------------------------------------------------ claims
RunsOf(f) == {r \in BagToSet(runs) : r.file = f}

Members(b) == {f \in DOMAIN files : files[f].status # "none" /\ files[f].batch_id = b}

\* C1: after a pipeline run that ended in failure, the file's Document row is
\* gone: a file in a failed status with no run in flight has no Document.
C1_FailedRunDeletesDocument ==
  \A f \in DOMAIN files :
    (files[f].status \in FailedStatuses /\ RunsOf(f) = {})
      => ~DocExists(docs, files[f].document_id)

\* C2: once every member file of a batch has finished its run (review_pending
\* or a failed status, nothing queued or in flight), the batch has left
\* processing for processing_complete, partially_completed or failed.
C2_BatchLeavesProcessing ==
  \A b \in DOMAIN batches :
    ( /\ Members(b) # {}
      /\ \A f \in Members(b) :
           /\ files[f].status \in {"review_pending"} \cup FailedStatuses
           /\ RunsOf(f) = {}
           /\ \A s \in bg : \A i \in 1..Len(s) : s[i] # f )
      => batches[b].status \in {"processing_complete", "partially_completed", "failed"}

StageRank(status) ==
  CASE status = "uploaded" -> 0
    [] status = "queued" -> 1
    [] status = "extracting_text" -> 2
    [] status = "analyzing_metadata" -> 3
    [] status = "generating_embeddings" -> 4
    [] status = "review_pending" -> 5
    [] OTHER -> 6

\* C3: every status write of a pipeline run moves the file forward along
\* uploaded, queued, extracting_text, analyzing_metadata,
\* generating_embeddings, review_pending or to a failed status, and
\* review_pending is written only by the last step of the run, after the
\* metadata stage.
C3_StatusWritesFollowChain ==
  [][\A f \in DOMAIN files :
       (Pipeline /\ FileExists(files, f) /\ files'[f].status # files[f].status)
         => /\ \/ files'[f].status \in FailedStatuses
               \/ StageRank(files'[f].status) > StageRank(files[f].status)
            /\ files'[f].status = "review_pending"
                 => \E r \in RunsOf(f) : r.pc = "finish"]_vars

\* C4: a batch recheck that finds total - completed - failed = 0 writes
\* processing_complete when failed = 0, partially_completed when failed > 0
\* and completed > 0, failed when completed = 0, with completed_files and
\* failed_files equal to the two counts.
C4_BatchRecheckResult ==
  [][\A r \in BagToSet(runs) :
       (RecheckBatch(r) /\ FileExists(files, r.file)) =>
         LET b == files[r.file].batch_id
             completed == Cardinality({f \in Members(b) :
                             files[f].status \in {"review_pending", "approved"}})
             failed == Cardinality({f \in Members(b) :
                          files[f].status \in
                            {"extraction_failed", "analysis_failed", "embedding_failed"}})
         IN (Cardinality(Members(b)) - completed - failed = 0) =>
              /\ failed = 0 => batches'[b].status = "processing_complete"
              /\ (failed > 0 /\ completed > 0) =>
                   batches'[b].status = "partially_completed"
              /\ completed = 0 => batches'[b].status = "failed"
              /\ batches'[b].completed_files = completed
              /\ batches'[b].failed_files = failed]_vars

\* C4 witness: a batch of three files, two in review_pending and one in
\* extraction_failed, rechecked to partially_completed with counts 2 and 1.
C4_Witness ==
  \E b \in DOMAIN batches :
    /\ Cardinality(Members(b)) = 3
    /\ Cardinality({f \in Members(b) : files[f].status = "review_pending"}) = 2
    /\ Cardinality({f \in Members(b) : files[f].status = "extraction_failed"}) = 1
    /\ \A f \in Members(b) : RunsOf(f) = {}
    /\ batches[b].status = "partially_completed"
    /\ batches[b].completed_files = 2
    /\ batches[b].failed_files = 1

C6_RejectOnlyFromReviewPending ==
  [][\A f \in DOMAIN files, review \in Reviews :
       ( /\ RejectFile(f, review)
         /\ FileExists(files, f)
         /\ files[f].status # "review_pending" )
         => /\ files'[f].status = files[f].status
            /\ result'.outcome # "ok"]_vars

\* C7: edit metadata on a Document that is already reviewed is refused with
\* an error and changes neither the Document nor any ProcessingFile, and no
\* write of that call is left pending.
C7_EditReviewedRefused ==
  [][\A d \in DOMAIN docs :
       ( /\ EditMetadataCheck(d)
         /\ DocExists(docs, d)
         /\ docs[d].is_reviewed )
         => /\ result' = Response("edit", "already_reviewed")
            /\ docs' = docs
            /\ files' = files
            /\ edits' = edits]_vars

\* C7 witness: a reviewed Document of an approved file on which an edit has
\* just been refused.
C7_Witness ==
  \E f \in DOMAIN files :
    /\ files[f].status = "approved"
    /\ DocExists(docs, files[f].document_id)
    /\ docs[files[f].document_id].is_reviewed
    /\ result = Response("edit", "already_reviewed")

\* C8: once a file's status is approved or rejected, no step changes it.
C8_ApprovedRejectedTerminal ==
  [][\A f \in DOMAIN files :
       files[f].status \in {"approved", "rejected"}
         => files'[f].status = files[f].status]_vars

\* The i-th file of a request meets a non-deleted Document with its content
\* hash: one stored before the request, or one created for an earlier file
\* of the same request.
MeetsDocument(req, i) ==
  \/ \E d \in DOMAIN docs :
       docs[d].exists /\ ~docs[d].is_deleted /\ docs[d].content_hash = req[i].hash
  \/ \E j \in 1..(i - 1) :
       result'.per_file[j] = "ok" /\ req[j].hash = req[i].hash

CountOf(seq, x) == Cardinality({i \in 1..Len(seq) : seq[i] = x})

\* What one upload request created: as many file rows, Document rows and
\* stored objects as files it answered ok, and nothing else.
CreatedOnlyForAccepted ==
  LET n == CountOf(result'.per_file, "ok")
  IN /\ Cardinality({f \in DOMAIN files : files[f].status = "none"
                                          /\ files'[f].status # "none"}) = n
     /\ Cardinality({d \in DOMAIN docs : ~docs[d].exists /\ docs'[d].exists}) = n
     /\ Cardinality(storage' \ storage) = n

DuplicateErrors == {"duplicate_document", "duplicate_processing"}

\* C9 as stated: every uploaded file whose content hash equals that of a
\* non-deleted Document is refused with a duplicate error, and nothing is
\* created for it.
C9_DuplicateRefusedAlways ==
  [][\A req \in Requests(1..UploadHashes, UploadRows) :
       UploadFiles(req) =>
         /\ CreatedOnlyForAccepted
         /\ \A i \in 1..Len(req) :
              MeetsDocument(req, i) => result'.per_file[i] \in DuplicateErrors]_vars

\* C9 amended: every uploaded file that passes validation and whose content
\* hash equals that of a non-deleted Document is refused with a duplicate
\* error; a file that fails validation is refused with the validation error;
\* in both cases nothing is created for it.
C9_DuplicateRefusedWhenValid ==
  [][\A req \in Requests(1..UploadHashes, UploadRows) :
       UploadFiles(req) =>
         /\ CreatedOnlyForAccepted
         /\ \A i \in 1..Len(req) :
              MeetsDocument(req, i) =>
                /\ req[i].valid => result'.per_file[i] \in DuplicateErrors
                /\ ~req[i].valid => result'.per_file[i] = "invalid"]_vars

\* C9 witness: a request of two identical files, the first stored and the
\* second refused as a duplicate, with one file row, one Document and one
\* stored object to show for it.
C9_Witness ==
  /\ result.op = "upload"
  /\ result.per_file = <<"ok", "duplicate_document">>
  /\ Cardinality({f \in DOMAIN files : files[f].status # "none"}) = 1
  /\ Cardinality({d \in DOMAIN docs : docs[d].exists}) = 1
  /\ Cardinality(storage) = 1

ClaimedRetryable ==
  {"extraction_failed", "analysis_failed", "embedding_failed", "processing_failed"}

WithinRetryBudget == \A f \in DOMAIN files : files'[f].retry_count <= 3

C12_QueueOnlyFromUploaded ==
  [][/\ \A s \in bg :
          (BackgroundQueue(s) /\ files[Head(s)].status # "uploaded")
            => files' = files /\ runs' = runs
     /\ \A t \in BagToSet(retries) :
          (RetryQueue(t) /\ files[t.file].status # "uploaded")
            => files' = files /\ runs' = runs]_vars

\* No listing shows a soft-deleted Document: not the library, and not the
\* review queue, whether as a document item or as the item of its file.
ListingsHideDeleted ==
  \A d \in DOMAIN docs :
    (docs[d].exists /\ docs[d].is_deleted) =>
      /\ d \notin LibraryListing(docs)
      /\ \A item \in ReviewQueue(files, docs) :
           /\ item.type = "document" => item.id # d
           /\ item.type = "processing_file" => files[item.id].document_id # d

\* C13: after every step no listing shows a soft-deleted Document, and
\* delete only sets is_deleted on the row, which stays in the table.
C13_DeletedNeverListed ==
  [][/\ ListingsHideDeleted'
     /\ \A d \in DOMAIN docs :
          (DeleteDocument(d) /\ DocExists(docs, d))
            => docs' = [docs EXCEPT ![d].is_deleted = TRUE]]_vars

\* The Document shows the placeholders written at upload.
ShowsPlaceholders(doc) == doc.title = "filename"

\* C14: a successful Metadata Stage leaves the extracted metadata on the
\* file's Document and the file in generating_embeddings, and the Document
\* of a file that a run takes to review_pending at its end does not show the
\* upload placeholders.
C14_MetadataOnDocument ==
  [][\A r \in BagToSet(runs) :
       /\ ( /\ MetadataResult(r, TRUE)
            /\ DocExists(docs, files[r.file].document_id) )
            => /\ files'[r.file].status = "generating_embeddings"
               /\ ~ShowsPlaceholders(docs'[files[r.file].document_id])
       /\ ( /\ Finish(r, TRUE)
            /\ files'[r.file].status = "review_pending" )
            => ~ShowsPlaceholders(docs'[files[r.file].document_id])]_vars

\* C15: when a run ends in success, the chunk_count recorded on the file's
\* Document equals the number of chunk rows stored for the file, also when
\* embedding was skipped (no rows) and when an earlier run stored rows.
C15_ChunkCountMatchesRows ==
  [][\A r \in BagToSet(runs) :
       (Finish(r, TRUE) /\ files'[r.file].status = "review_pending")
         => docs'[files[r.file].document_id].chunk_count
              = files'[r.file].chunk_rows]_vars


\* C16: for every text and every configuration with chunk_size >= 1 and the
\* overlap clamped to a quarter of it, an iteration of the chunking loop that
\* is followed by another one leaves the cursor `start` strictly greater than
\* it found it, and still inside the text: the loop terminates.
C16_CursorStrictlyIncreases ==
  [][(chunker.pc = "loop" /\ chunker'.pc = "loop")
       => /\ chunker'.start > chunker.start
          /\ chunker'.start < chunker.text.len
          /\ chunker'.iteration_count = chunker.iteration_count + 1]_vars

\* A second iteration has ended on a break inside its window, with an overlap
\* of one character, and a third one follows.
C16_Witness ==
  /\ chunker.pc = "loop"
  /\ chunker.iteration_count >= 2
  /\ chunker.chunk_overlap = 1
  /\ chunker.span.end < chunker.span.start + chunker.chunk_size


\* C17: for a text longer than chunk_size whose chunking ends below the
\* iteration ceiling, the raw spans [start, end) cover the text without gaps:
\* the first starts at 0, each following one starts at or before the end of
\* the one before it, the last reaches the end of the text, and every
\* character of a span that is not whitespace lies in the chunk appended for it.
C17_SpansCoverText ==
  [][(chunker.pc = "loop" /\ chunker'.pc \in {"loop", "done"})
       => /\ chunker.iteration_count = 0 => chunker'.span.start = 0
          /\ chunker.iteration_count > 0
               => chunker'.span.start <= chunker.span.end
          /\ chunker'.pc = "done" => chunker'.span.end >= chunker.text.len
          /\ \A i \in chunker'.span.start..
                        (Min(chunker'.span.end, chunker.text.len) - 1) :
               CharAt(chunker.text, i) \notin Whitespace
                 => /\ chunker'.appended
                    /\ chunker'.chunk.start <= i
                    /\ i < chunker'.chunk.end]_vars

\* A chunking of three or more overlapping spans has reached the end of the
\* text, and the last span lost leading whitespace to strip().
C17_Witness ==
  /\ chunker.pc = "done"
  /\ chunker.iteration_count >= 3
  /\ chunker.chunk_overlap = 1
  /\ chunker.span.end >= chunker.text.len
  /\ chunker.chunk.start > chunker.span.start
  /\ chunker.appended


\* C18: for every text of at most chunk_size characters, leading or trailing
\* whitespace and the empty text included, the chunker returns exactly one
\* chunk, and that chunk is the input stripped of surrounding whitespace.
C18_ShortTextOneStrippedChunk ==
  [][(chunker.pc = "call" /\ chunker.text.len <= chunker.chunk_size)
       => /\ chunker'.pc = "done"
          /\ chunker'.chunk_count = 1
          /\ Chars(chunker.text, chunker'.chunk)
               = Chars(chunker.text,
                       Strip(chunker.text, 0, chunker.text.len))]_vars


\* Where the first chunk of a scenario text ends: at the last paragraph break
\* between characters 500 and 1000, else after the period of the last sentence
\* break there, else at character 1000.
FirstChunkEnd(text) ==
  LET lo == DefaultChunkSize \div 2
      at(c1, c2) == {p \in DOMAIN text.special :
                       /\ lo <= p
                       /\ p + 2 <= DefaultChunkSize
                       /\ CharAt(text, p) = c1
                       /\ CharAt(text, p + 1) = c2}
  IN  IF at("\n", "\n") # {} THEN Highest(at("\n", "\n"))
      ELSE IF at(".", " ") # {} THEN Highest(at(".", " ")) + 1
      ELSE DefaultChunkSize

\* The spans of a scenario text chain without gaps from character 0, and the
\* second one starts at or before character 800.
ScenarioSpansChain ==
  /\ chunker.iteration_count = 0 => chunker'.span.start = 0
  /\ chunker.iteration_count > 0 => chunker'.span.start <= chunker.span.end
  /\ chunker.iteration_count = 1
       => chunker'.span.start <= DefaultChunkSize - DefaultChunkOverlap
  /\ chunker'.appended
  /\ chunker'.pc = "done" => chunker'.span.end >= chunker.text.len

C20_CeilingNeverReached ==
  chunker.pc # "none" /\ chunker.text.len <= MaxExtractedTextLength
    => chunker.pc # "cut"


\* C21: during streaming embedding the embeddings and chunk rows held in
\* memory belong to one stream batch and number at most stream_batch_size
\* (50) each; a provider request carries at most 20 chunks; and when a chunk
\* of a stream batch is sent to the provider every chunk of the batches
\* before it is stored and no row is buffered, whatever the chunk count.
C21_StreamingBoundsMemory ==
  stream.pc # "none"
    => LET current == StreamChunks(stream.stream_start, stream.total_chunks)
       IN  /\ stream.stream_embeddings \subseteq current
           /\ stream.chunk_batch \subseteq current
           /\ Cardinality(stream.stream_embeddings) <= StreamBatchSize
           /\ Cardinality(stream.chunk_batch) <= StreamBatchSize
           /\ Cardinality(stream.request) <= OpenAIBatchSize
           /\ stream.pc = "openai_batch"
                => /\ stream.request \subseteq current \/ stream.i = 0
                   /\ stream.chunk_batch = {}
                   /\ stream.rows = 0..(stream.stream_start - 1)
                   /\ stream.total_saved = stream.stream_start

\* The third stream batch of a call is being embedded: two full batches are
\* stored and a request of the third one has been answered.
C21_Witness ==
  /\ stream.pc = "openai_batch"
  /\ stream.stream_start = 2 * StreamBatchSize
  /\ stream.i > 0
  /\ stream.stream_embeddings # {}
  /\ Cardinality(stream.rows) = 2 * StreamBatchSize


\* C22: when the embedding provider is not configured a run that succeeds
\* leaves the file in review_pending with no error_message, no chunk row
\* stored for it, and a chunk_count of 0 on its Document.
C22_SkippedEmbeddingCountsZero ==
  [][\A r \in BagToSet(runs) :
       (~embeddings /\ Finish(r, TRUE)
          /\ files'[r.file].status = "review_pending")
         => /\ ~files'[r.file].error_message
            /\ files'[r.file].chunk_rows = 0
            /\ docs'[files[r.file].document_id].chunk_count = 0]_vars


\* C23: during process_batch no more than 5 file pipelines of the call run at
\* once; the files the call selects are the files of the batch that read
\* uploaded when it started, and the call goes on to its tally only when the
\* run of every one of them has returned or raised.
C23_BoundedConcurrency ==
  [][/\ Cardinality(Holding') <= MaxConcurrentFiles
     /\ \A b \in DOMAIN batches :
          ProcessBatchSelect(b)
            => gather'.file_ids =
                 {f \in DOMAIN files : /\ files[f].batch_id = b
                                       /\ files[f].status = "uploaded"}
     /\ ProcessBatchTally
          => \A f \in gather.file_ids :
               \E r \in TaskRuns : r.file = f /\ r.pc \in Returned]_vars

\* Five tasks hold the semaphore and a sixth selected file waits for it.
C23_Witness ==
  /\ gather.pc = "gather"
  /\ Cardinality(Holding) = MaxConcurrentFiles
  /\ gather.file_ids \ Started # {}

\* C24: a run of process_batch that fails or raises does not keep the other
\* selected files from running to their end: the call returns a result for
\* every selected file, successful_files + failed_files is the number of
\* files selected, and successful_files is the number of runs that returned
\* success.
C24_TallyCountsEveryFile ==
  [][ProcessBatchTally
       => LET results == gather'.results
              response == gather'.response
          IN  /\ DOMAIN results = gather.file_ids
              /\ \A f \in gather.file_ids : results[f] \in Returned
              /\ response.success
              /\ response.total_files = Cardinality(gather.file_ids)
              /\ response.successful_files + response.failed_files
                   = Cardinality(gather.file_ids)
              /\ response.successful_files
                   = Cardinality({f \in gather.file_ids :
                                    results[f] = "returned_success"})]_vars

\* A call has returned after one of its runs raised, one returned a failure
\* and one returned success.
C24_Witness ==
  /\ gather.pc = "returned"
  /\ gather.response.success
  /\ \E f, g, h \in gather.file_ids :
       /\ gather.results[f] = "raised"
       /\ gather.results[g] = "returned_failure"
       /\ gather.results[h] = "returned_success"


\* The Document badge that goes with a file status, for the statuses a
\* pipeline run passes through.
Projection(status) ==
  CASE status = "queued" -> "extracting_text"
    [] status = "extracting_text" -> "extracting_text"
    [] status = "analyzing_metadata" -> "analyzing_metadata"
    [] status = "generating_embeddings" -> "generating_embeddings"
    [] status = "review_pending" -> "ready_for_review"

\* C25: ProcessingFile.status and Document.processing_status move in
\* lockstep: after every status write of a queue step or pipeline run that
\* puts the file in queued, extracting_text, analyzing_metadata,
\* generating_embeddings or review_pending, the file's Document shows the
\* projection of that status.
C25_StatusLockstep ==
  [][\A f \in DOMAIN files :
       ( /\ runs' # runs
         /\ files'[f].status # files[f].status
         /\ files'[f].status \in {"queued", "extracting_text", "analyzing_metadata",
                                  "generating_embeddings", "review_pending"}
         /\ DocExists(docs', files'[f].document_id) )
         => docs'[files'[f].document_id].processing_status
              = Projection(files'[f].status)]_vars


\* C26: a failed run leaves the file in the failed status of the stage that
\* failed, with an error_message: extraction_failed for a failure of the
\* extraction, analysis_failed for one of the metadata analysis,
\* embedding_failed for one of the embedding or of the final document update.
C26_FailedStatusNamesStage ==
  [][\A r \in BagToSet(runs) :
       /\ Extract(r, FALSE, FALSE, 0)
            => /\ files'[r.file].status = "extraction_failed"
               /\ files'[r.file].error_message
       /\ MetadataResult(r, FALSE)
            => /\ files'[r.file].status = "analysis_failed"
               /\ files'[r.file].error_message
       /\ (EmbedStore(r, FALSE) \/ Finish(r, FALSE))
            => /\ files'[r.file].status = "embedding_failed"
               /\ files'[r.file].error_message]_vars


\* How often the failure list of a response names the file at position i.
FailuresNaming(r, i) ==
  Cardinality({k \in 1..Len(r.failed_files) : r.failed_files[k].filename = i})

\* C27: for every upload request that passes the batch-size check, each file
\* of the request ends in exactly one of the two response lists; a file whose
\* processing fails is in the failure list with its name and its error, and
\* the files after it are still processed; the two counts add up to the
\* number of files of the request.
C27_EveryFileInOneList ==
  [][\A req \in Requests(1..UploadHashes, UploadRows) :
       UploadFiles(req) =>
         LET r == result'
         IN /\ Len(r.per_file) = Len(req)
            /\ Len(r.uploaded_files) = CountOf(r.per_file, "ok")
            /\ Len(r.uploaded_files) + Len(r.failed_files) = Len(req)
            /\ \A i \in 1..Len(req) :
                 FailuresNaming(r, i) = IF r.per_file[i] = "ok" THEN 0 ELSE 1
            /\ \A k \in 1..Len(r.failed_files) :
                 /\ r.failed_files[k].filename \in 1..Len(req)
                 /\ r.failed_files[k].error # "none"
                 /\ r.failed_files[k].error = r.per_file[r.failed_files[k].filename]
            /\ r.total_files = Len(req)
            /\ r.success_count = Len(r.uploaded_files)
            /\ r.error_count = Len(r.failed_files)
            /\ r.success_count + r.error_count = r.total_files]_vars

\* C27 witness: a request of two files whose first file fails in storage and
\* whose second file is stored all the same.
C27_Witness ==
  /\ result.op = "upload"
  /\ result.outcome = "accepted"
  /\ result.per_file = <<"storage_failed", "ok">>
  /\ Len(result.uploaded_files) = 1
  /\ Len(result.failed_files) = 1
  /\ result.failed_files[1].filename = 1
  /\ result.success_count = 1
  /\ result.error_count = 1


\* C28: a rejection by validation creates no state. A request of no file or
\* of more files than max_files_per_batch is turned away with every table and
\* the storage as they were, no batch row created; within an accepted request
\* a file that fails validation is answered with the validation error, and
\* the request creates file rows, Documents and stored objects for the files
\* it answered ok and for no other, none at all when every file was invalid.
C28_RejectionCreatesNothing ==
  [][\A req \in Requests(1..UploadHashes, UploadRows) \cup RefusedRequests :
       UploadFiles(req) =>
         IF Len(req) = 0 \/ Len(req) > MaxFilesPerBatch
           THEN /\ result'.outcome \in {"no_files", "too_many_files"}
                /\ batches' = batches
                /\ files' = files
                /\ docs' = docs
                /\ storage' = storage
                /\ bg' = bg
           ELSE /\ \A i \in 1..Len(req) :
                     ~req[i].valid => result'.per_file[i] = "invalid"
                /\ CreatedOnlyForAccepted
                /\ (\A i \in 1..Len(req) : ~req[i].valid) =>
                     files' = files /\ docs' = docs /\ storage' = storage]_vars

\* C28 witness: an oversized request has just been turned away, after a
\* request of one invalid file left a failed batch and nothing else: no file
\* row, no Document, no stored object.
C28_Witness ==
  /\ result.op = "upload"
  /\ result.outcome = "too_many_files"
  /\ Cardinality({b \in DOMAIN batches : batches[b].status # "none"}) = 1
  /\ \E b \in DOMAIN batches :
       batches[b].status = "failed" /\ batches[b].total_files = 1
  /\ \A f \in DOMAIN files : files[f].status = "none"
  /\ \A d \in DOMAIN docs : ~docs[d].exists
  /\ storage = {}


\* C29: every duplicate rejection carries a reference to the record it
\* conflicts with: the id of the existing Document when the hash matches a
\* non-deleted Document, the id of the existing file row when it matches a
\* file still in processing.
C29_DuplicateCarriesReference ==
  [][\A req \in Requests(1..UploadHashes, UploadRows) :
       UploadFiles(req) =>
         \A k \in 1..Len(result'.failed_files) :
           LET failure == result'.failed_files[k]
           IN /\ failure.error = "duplicate_document" =>
                   failure.existing_document_id # 0
              /\ failure.error = "duplicate_processing" =>
                   failure.existing_processing_file_id # 0]_vars


\* C30: merging the regex-derived signals never overwrites a value the
\* provider supplied: after a save with a provider configured, the court and
\* the citation persisted are the provider's whenever it gave one, and every
\* keyword it gave is among the keywords persisted.
C30_ProviderValueNeverOverwritten ==
  (merge.pc = "saved" /\ merge.provider # "none") =>
    /\ Truthy(merge.llm.court) => merge.saved.ai_court = merge.llm.court
    /\ Truthy(merge.llm.bluebook_citation) =>
         merge.saved.ai_bluebook_citation = merge.llm.bluebook_citation
    /\ \A i \in 1..Len(merge.llm.keywords) :
         \E j \in 1..Len(merge.saved.ai_keywords) :
           merge.saved.ai_keywords[j] = merge.llm.keywords[i]


\* C31: a retry is accepted for a file in each failed status the pipeline can
\* write, extraction_failed, analysis_failed and embedding_failed, whenever
\* its retry_count is below 3; in particular for a file the metadata stage
\* left in analysis_failed.
C31_RetryAcceptedForEveryFailedStatus ==
  [][\A f \in DOMAIN files :
       (/\ RetryRead(f)
        /\ FileExists(files, f)
        /\ files[f].status \in FailedStatuses
        /\ files[f].retry_count < MaxRetryCount)
         => CopiesIn(RetryCall(f, files[f].retry_count, "reset"), retries')
              = CopiesIn(RetryCall(f, files[f].retry_count, "reset"), retries) + 1]_vars


\* Statuses of a file row that the duplicate check is said to ignore.
ClaimedIgnoredByDuplicateCheck ==
  {"extraction_failed", "analysis_failed", "embedding_failed", "duplicate", "cancelled"}

\* C32: the duplicate check of an upload ignores file rows in a terminal
\* failed status (extraction_failed, analysis_failed, embedding_failed), in
\* duplicate or in cancelled: a valid file whose content hash belongs to no
\* non-deleted Document and only to file rows in those statuses, and to no
\* earlier file of the same request, is accepted.
C32_FailedRowsDoNotBlockUpload ==
  [][\A req \in Requests(1..UploadHashes, UploadRows) :
       UploadFiles(req) =>
         \A i \in 1..Len(req) :
           (/\ req[i].valid
            /\ req[i].store_ok
            /\ ExistingDocuments(docs, req[i].hash) = {}
            /\ \A f \in DOMAIN files :
                 (files[f].status # "none" /\ files[f].content_hash = req[i].hash)
                   => files[f].status \in ClaimedIgnoredByDuplicateCheck
            /\ \A j \in 1..(i - 1) : req[j].hash # req[i].hash)
             => result'.per_file[i] = "ok"]_vars


\* C33: from under_review, the status a successful metadata edit gives the
\* file, both review decisions are available: an approve call on such a file
\* whose Document exists makes it approved, and a reject call makes it
\* rejected.
C33_UnderReviewCanBeDecided ==
  [][\A f \in DOMAIN files, review \in Reviews :
       /\ ( /\ ApproveFileForLibrary(f, review)
            /\ FileExists(files, f)
            /\ files[f].status = "under_review"
            /\ DocExists(docs, files[f].document_id) )
            => /\ files'[f].status = "approved"
               /\ docs'[files[f].document_id].is_reviewed
       /\ ( /\ RejectFile(f, review)
            /\ FileExists(files, f)
            /\ files[f].status = "under_review" )
            => files'[f].status = "rejected"]_vars


ReviewStatuses == {"review_pending", "under_review", "approved", "rejected"}

\* C34: whenever a batch's status is processing_complete, every member file
\* is in review_pending or a later review status, and no pipeline run of a
\* member file is still in flight.
C34_CompleteBatchIsSettled ==
  \A b \in DOMAIN batches :
    batches[b].status = "processing_complete" =>
      \A f \in Members(b) :
        /\ files[f].status \in ReviewStatuses
        /\ RunsOf(f) = {}


\* C35: no approve call succeeds for a file while a pipeline run of that file
\* is still in flight, and no step of a pipeline run changes the status of a
\* file that is approved.
C35_NoApproveDuringRun ==
  [][/\ \A f \in DOMAIN files, review \in Reviews :
          ( /\ ApproveFileForLibrary(f, review)
            /\ result'.outcome = "ok" )
            => RunsOf(f) = {}
     /\ \A r \in BagToSet(runs) :
          ( /\ FileExists(files, r.file)
            /\ files[r.file].status = "approved"
            /\ runs' # runs )
            => files'[r.file].status = "approved"]_vars


\* C36: under every interleaving of an edit-metadata call and an approve call
\* on the same Document, the writes of an edit that find is_reviewed true
\* modify no metadata field of the Document and move no approved file of the
\* Document to under_review: the edit's check and its writes are one step.
C36_EditAtomicWithApprove ==
  [][\A d \in edits, review \in Reviews :
       ( /\ EditMetadataWrite(d, review)
         /\ DocExists(docs, d)
         /\ docs[d].is_reviewed )
         => /\ docs'[d].title = docs[d].title
            /\ \A f \in DOMAIN files :
                 (files[f].document_id = d /\ files[f].status = "approved")
                   => files'[f].status = "approved"]_vars


\* C37: when process_batch finishes a batch in which at least one file
\* succeeded and at least one failed, the status it stores for the batch is
\* partially_completed, never failed.
C37_MixedBatchPartiallyCompleted ==
  [][ProcessBatchTally
       => LET response == gather'.response
          IN (response.successful_files > 0 /\ response.failed_files > 0)
               => batches'[gather.batch_id].status = "partially_completed"]_vars


TerminalForRun == {"review_pending"} \cup FailedStatuses

Called(provider) == \E i \in 1..Len(merge.called) : merge.called[i] = provider

\* C39: the providers are tried in the order Anthropic, OpenAI, heuristics:
\* the Metadata Stage reports a failure of the provider call only after every
\* configured provider was called, OpenAI after a failed Anthropic call
\* included; with no provider configured the heuristic extraction is used and
\* succeeds with the low confidence 0.5.
C39_ProvidersTriedInOrder ==
  /\ merge.pc = "returned_failure" =>
       /\ merge.anthropic_client => Called("anthropic")
       /\ merge.openai_client => Called("openai")
  /\ (~merge.anthropic_client /\ ~merge.openai_client
        /\ merge.pc \notin {"select", "provider"}) =>
       /\ merge.pc # "returned_failure"
       /\ merge.extraction_method = "basic_heuristics"
       /\ merge.confidence = BasicConfidence

\* The request is signed with the HMAC-SHA256 of its raw body under the
\* shared secret.
SignedUnderSharedSecret(req) ==
  /\ req.x_signature.present
  /\ req.x_signature.hex = Hmac(ServerSecret, req.body)

====
